---------------------------- MODULE Spec2Model ----------------------------
(***************************************************************************)
(* large-sort: external merge sort for NodeJS.                             *)
(*                                                                         *)
(* The repository holds several revisions of the same library.  The model  *)
(* follows three of them, selected by the variable `variant`:              *)
(*   "v1"   src/src/large-sort.ts     (the first revision: sortFile only,  *)
(*          split reads the input file and merge writes the output file    *)
(*          themselves, a single batch is written straight to the output)  *)
(*   "ts"   src/unnamed/part_001      (TypeScript source: sortFile,        *)
(*          sortStream, merge, mergeSortedFiles, mergeSortedStreams)       *)
(*   "lib"  src/lib/large-sort.js     (the shipped build of a later        *)
(*          revision: synchronous run writes, optimised merge loop,        *)
(*          simplified binarySearch)                                       *)
(* The Chunk Tokenizer (split.transform / split.flush) is the same text in *)
(* all three; the merge loop and binarySearch of "v1" are those of "ts".   *)
(*                                                                         *)
(* Strings are sequences of one-character strings; records are natural     *)
(* numbers.  A callback that throws returns the value Throws.              *)
(***************************************************************************)
EXTENDS Integers, Sequences, FiniteSets, TLC

VARIABLES
    api,                 \* the call that is modelled: "binarySearch", "split", "merge"
                         \* (of Readable streams), "mergeSortedFiles", "sortStream",
                         \* "sortFile"
    variant,             \* which revision runs: "v1", "ts" or "lib"
    compareKind,         \* the caller's compareFn: "asc", "key" or "default"
    \* ---- binarySearch, called on its own
    bsArray,             \* array argument (MergerInfo records, descending)
    bsTarget,            \* target argument
    bsResult,            \* returned index, Throws, or NotCalled
    \* ---- arguments of sortStream / merge
    text,                \* the characters the input stream will deliver
    inputDelimeter,      \* string or RegExp: the alternatives, tried in order
    outputDelimeter,     \* string
    linesPerFile,
    maxStringLength,     \* flush threshold of the merge's write buffer
    inputs,              \* merge's inputs argument: the lines of each stream
    fault,               \* the fault this run meets: "none", "open", "read", "write",
                         \* "gone" (the temp folder is removed behind the call's back)
    heapSizes,           \* the values process.memoryUsage().heapUsed can have
                         \* during this run, in MiB
    \* ---- sortStream
    pc,                  \* where the call is
    pass,                \* 1: first sort, 2: the sort of the first sort's output
    firstOutput,         \* what the first sort wrote to its output stream
    registered,          \* TEMP_SORTS_TO_CLEAN_BEFORE_EXIT has the call's entry
    error,               \* the error thrown inside split or merge, or NoError
    reason,              \* what the call's promise rejected with, or NoError
    sinkFailed,          \* a write to the output stream has failed
    cleanupError,        \* history: what fs.rmdirSync threw inside deleteFiles, or NoError
    outputFile,          \* sortFile: what is at the destination path
    outputFileLog,       \* history: the operations that touched the destination path
    \* ---- split
    pos,                 \* characters of text delivered so far
    previousRemaingData,
    buffer,
    linesLoaded,
    nextMemoryCheck,
    outputFiles,         \* tempFiles: run file names, in flush order
    parsedLog,           \* history: every string handed to inputMapFn, in order
    parsedOk,            \* history: every record inputMapFn returned, in order
    \* ---- file system (the temp folder)
    tempFolder,          \* "exists" or "removed"
    files,               \* the files of the temp folder: name -> content
    pendingWrites,       \* fs.writeFile calls not yet completed
    \* ---- merge
    streams,             \* per input: the lines not yet read
    opened,              \* number of inputs whose reader has been created
    readers,
    mergerInfo,          \* the reader being advanced
    writeBuffer,
    bufferStringSize,
    bufferStr,           \* joined batch waiting for `await previousPromise`
    emitted,             \* history: records emitted, in order
    handles,             \* history, per input: whether merge created its file stream,
                         \* and the close() calls on its readline interface and on
                         \* its file stream
    \* ---- output stream
    batches,             \* the strings handed to outputStream.write, in order
    inFlight,            \* writes whose completion callback has not fired
    \* ---- several sort calls in one process
    sorts,               \* per call: where it is, its tempFolder, its tempFiles,
                         \* its fs.writeFile calls not yet completed, and how many
                         \* of its tempFiles its merge has opened
    registry,            \* the keys of TEMP_SORTS_TO_CLEAN_BEFORE_EXIT
    tmpdir,              \* os.tmpdir()/large-sort: per folder name, its state
                         \* ("never" made, "exists", "removed") and its files
                         \* (name -> the call that wrote it)
    fileLog              \* history: every file operation (call, op, folder, name)

callVars == <<api, variant, compareKind, text, inputDelimeter, outputDelimeter,
              linesPerFile, maxStringLength, inputs, fault, heapSizes>>
searchVars == <<bsArray, bsTarget, bsResult>>
sortVars == <<pc, pass, firstOutput, registered>>
settleVars == <<error, reason, sinkFailed, cleanupError>>
destVars == <<outputFile, outputFileLog>>
splitVars == <<pos, previousRemaingData, buffer, linesLoaded, nextMemoryCheck,
               outputFiles, parsedLog, parsedOk>>
fsVars == <<tempFolder, files, pendingWrites>>
mergeVars == <<streams, opened, readers, mergerInfo, writeBuffer, bufferStringSize,
               bufferStr, emitted, handles>>
sinkVars == <<batches, inFlight>>
processVars == <<sorts, registry, tmpdir, fileLog>>
vars == <<callVars, searchVars, sortVars, settleVars, destVars, splitVars, fsVars,
          mergeVars, sinkVars, processVars>>

(***************************************************************************)
(* Bounds of the model.                                                    *)
(***************************************************************************)
MaxValue == 3        \* records are 1..MaxValue
MaxArray == 4        \* longest array handed to binarySearch on its own
MaxRecords == 3      \* most records of a generated input text
MaxCallRecords == 2  \* most lines of the generated input text of a sortFile or sortStream call
MaxLinesPerFile == 2 \* linesPerFile is 1..MaxLinesPerFile
MaxStreams == 2      \* most inputs of a generated call of merge
MaxMergeRecords == 4 \* most records in the inputs of a generated call of merge
MaxLiveRecords == 3  \* most of them where the merge is followed to its end under fairness
MaxFileRecords == 3  \* most records in the files of a generated merge of files
MaxSorts == 2        \* sort calls running in one process
MaxRuns == 1         \* most run files one of these calls writes
ScaledStringLength == 1  \* maxStringLength scaled down to the size of the inputs
ScaledCheckLines == 1    \* the first memory checkpoint scaled down likewise

Variants == {"ts", "lib"}
CompareKinds == {"asc", "key"}
Values == 1..MaxValue

Throws == 0 - 1      \* a callback or an operation threw
NotCalled == 0 - 2   \* no result yet

Sign(n) == IF n < 0 THEN 0 - 1 ELSE IF n > 0 THEN 1 ELSE 0

(***************************************************************************)
(* compareFn: the caller's comparator.  "asc" orders numbers ascending     *)
(* (a - b); "key" compares a sort key only (a >> 1), so that distinct      *)
(* records can compare equal.  Both are total preorders.  "default" is the *)
(* default value of the parameter, (a, b) => a > b ? 1 : -1, which never   *)
(* returns 0.                                                              *)
(***************************************************************************)
compareFn(a, b) ==
    IF compareKind = "asc" THEN Sign(a - b)
    ELSE IF compareKind = "key" THEN Sign((a \div 2) - (b \div 2))
    ELSE IF a > b THEN 1 ELSE 0 - 1

(***************************************************************************)
(* mergerInfoReverseCompareFn = (a, b) => compareFn(b.data, a.data).       *)
(* An operand that is `undefined` (an index outside the array) makes the   *)
(* property read throw.                                                    *)
(***************************************************************************)
Undefined == [undefined |-> TRUE]

At(array, i) == IF i >= 0 /\ i < Len(array) THEN array[i + 1] ELSE Undefined

mergerInfoReverseCompareFn(a, b) == compareFn(b.data, a.data)

(***************************************************************************)
(* binarySearch of the TypeScript revisions (indices are 0-based as in the *)
(* source; array[i] is At(array, i)).                                      *)
(***************************************************************************)
RECURSIVE tsBinarySearchLoop(_, _, _, _)
tsBinarySearchLoop(target, array, start, end) ==
    IF start = end - 1
    THEN IF start = Len(array) - 1
            /\ mergerInfoReverseCompareFn(At(array, start), target) < 0
         THEN start + 1
         ELSE start
    ELSE LET mid == (start + end) \div 2
             pivot == At(array, mid)
             beforePivot == At(array, mid - 1)
         IN  IF mid = 0 THEN mid
             ELSE IF pivot = Undefined \/ beforePivot = Undefined THEN Throws
             ELSE IF mergerInfoReverseCompareFn(pivot, target) >= 0
                     /\ mergerInfoReverseCompareFn(beforePivot, target) < 0
                  THEN mid
             ELSE IF mergerInfoReverseCompareFn(pivot, target) > 0
                  THEN tsBinarySearchLoop(target, array, start, mid)
                  ELSE tsBinarySearchLoop(target, array, mid, end)

tsBinarySearch(target, array) == tsBinarySearchLoop(target, array, 0, Len(array))

(***************************************************************************)
(* binarySearch of lib/large-sort.js.                                      *)
(***************************************************************************)
RECURSIVE libBinarySearchLoop(_, _, _, _)
libBinarySearchLoop(target, array, start, end) ==
    IF start = end - 1
    THEN IF start = Len(array) - 1
            /\ mergerInfoReverseCompareFn(At(array, start), target) < 0
         THEN start + 1
         ELSE start
    ELSE LET mid == (start + end) \div 2
             pivot == At(array, mid)
             beforePivot == At(array, mid - 1)
         IN  IF pivot = Undefined THEN Throws
             ELSE IF mergerInfoReverseCompareFn(pivot, target) < 0
                  THEN libBinarySearchLoop(target, array, mid, end)
             ELSE IF beforePivot = Undefined THEN Throws
             ELSE IF mergerInfoReverseCompareFn(beforePivot, target) < 0
                  THEN mid
                  ELSE libBinarySearchLoop(target, array, start, mid)

libBinarySearch(target, array) == libBinarySearchLoop(target, array, 0, Len(array))

binarySearch(target, array) ==
    IF variant # "lib" THEN tsBinarySearch(target, array)
    ELSE libBinarySearch(target, array)

(***************************************************************************)
(* array.splice(insertIdx, 0, item)                                        *)
(***************************************************************************)
Splice(array, insertIdx, item) ==
    SubSeq(array, 1, insertIdx) \o <<item>> \o SubSeq(array, insertIdx + 1, Len(array))

(***************************************************************************)
(* Strings.                                                                *)
(***************************************************************************)
NL == "\n"
DigitChars == <<"0", "1", "2", "3", "4", "5", "6", "7", "8", "9">>
Whitespace == {" ", NL}

IsDigit(c) == \E i \in 1..Len(DigitChars) : DigitChars[i] = c
DigitValue(c) == (CHOOSE i \in 1..Len(DigitChars) : DigitChars[i] = c) - 1

\* String(n) of a non-negative integer: its decimal digits.
RECURSIVE String(_)
String(n) ==
    IF n < Len(DigitChars) THEN <<DigitChars[n + 1]>>
    ELSE String(n \div Len(DigitChars)) \o <<DigitChars[(n % Len(DigitChars)) + 1]>>

\* The number a string of decimal digits denotes.
RECURSIVE DigitsValue(_)
DigitsValue(s) ==
    IF s = <<>> THEN 0
    ELSE DigitsValue(SubSeq(s, 1, Len(s) - 1)) * Len(DigitChars) + DigitValue(s[Len(s)])

\* str.trim() != ''
NotBlank(s) == \E i \in 1..Len(s) : s[i] \notin Whitespace

\* array.join(separator) of an array of strings
RECURSIVE Join(_, _)
Join(array, separator) ==
    IF array = <<>> THEN <<>>
    ELSE IF Len(array) = 1 THEN array[1]
    ELSE array[1] \o separator \o Join(Tail(array), separator)

\* The length of the delimiter match that starts at text[i], 0 when none does.
\* A delimiter is the sequence of its alternatives: one for a string, several
\* for a RegExp such as /,;|,/ (tried in order, as the RegExp engine does).
RECURSIVE MatchLength(_, _, _)
MatchLength(str, i, delimeter) ==
    IF delimeter = <<>> THEN 0
    ELSE LET alt == Head(delimeter)
         IN  IF i + Len(alt) - 1 <= Len(str) /\ SubSeq(str, i, i + Len(alt) - 1) = alt
             THEN Len(alt)
             ELSE MatchLength(str, i, Tail(delimeter))

\* str.split(delimeter): the pieces between successive delimiter matches;
\* always at least one piece.
RECURSIVE SplitFrom(_, _, _, _)
SplitFrom(str, i, piece, delimeter) ==
    IF i > Len(str) THEN <<piece>>
    ELSE LET m == MatchLength(str, i, delimeter)
         IN  IF m > 0 THEN <<piece>> \o SplitFrom(str, i + m, <<>>, delimeter)
             ELSE SplitFrom(str, i + 1, Append(piece, str[i]), delimeter)

StringSplit(str, delimeter) == SplitFrom(str, 1, <<>>, delimeter)

\* The lines readline's async iterator yields for a stream holding `data`:
\* the pieces between "\n", without a last empty piece.
ReadLines(data) ==
    LET pieces == StringSplit(data, <<<<NL>>>>)
    IN  IF pieces[Len(pieces)] = <<>> THEN SubSeq(pieces, 1, Len(pieces) - 1) ELSE pieces

(***************************************************************************)
(* The Record Codec.  inputMapFn and outputMapFn are the caller's: a       *)
(* to-number parse that throws on anything but decimal digits, and         *)
(* String().  Between split and merge the library itself uses              *)
(* JSON.stringify and JSON.parse.                                          *)
(***************************************************************************)
inputMapFn(s) ==
    IF s # <<>> /\ \A i \in 1..Len(s) : IsDigit(s[i]) THEN DigitsValue(s) ELSE Throws

outputMapFn(x) == String(x)

JSONstringify(x) == String(x)

JSONparse(s) ==
    IF s # <<>> /\ \A i \in 1..Len(s) : IsDigit(s[i]) THEN DigitsValue(s) ELSE Throws

(***************************************************************************)
(* array.sort(compareFn): stable (insertion of each element after the      *)
(* elements that do not compare greater).                                  *)
(***************************************************************************)
RECURSIVE InsertSorted(_, _, _)
InsertSorted(sorted, x, i) ==
    IF i > Len(sorted) THEN Append(sorted, x)
    ELSE IF compareFn(sorted[i], x) > 0
         THEN SubSeq(sorted, 1, i - 1) \o <<x>> \o SubSeq(sorted, i, Len(sorted))
         ELSE InsertSorted(sorted, x, i + 1)

RECURSIVE ArraySort(_)
ArraySort(array) ==
    IF array = <<>> THEN <<>>
    ELSE InsertSorted(ArraySort(SubSeq(array, 1, Len(array) - 1)), array[Len(array)], 1)

(***************************************************************************)
(* split: the Adaptive Memory Monitor.  Heap sizes are in MiB.             *)
(***************************************************************************)
MAX_BYTES == 1024          \* MAX_GB * 1024 * 1024 * 1024 bytes, in MiB
CHECK_LINES == 1000        \* Math.min(1_000, linesPerFile)
BaseHeapUsed == 64         \* baseMemoryUsage.heapUsed, in MiB
NoCheckpoint == 0 - 1      \* a checkpoint no buffer size equals (Infinity, negative)

\* heap sizes the monitor can find: at the baseline or above the ceiling
HeapSamples == {BaseHeapUsed, MAX_BYTES + 1}

\* and those of a heap that grows: also a little above the baseline and above
\* the middle between baseline and ceiling
GrowingHeapSamples ==
    HeapSamples \cup {BaseHeapUsed + 1, BaseHeapUsed + (MAX_BYTES - BaseHeapUsed) \div 2 + 1}

Min(a, b) == IF a < b THEN a ELSE b

\* [flush, nextMemoryCheck] after shouldFlushMemory(bufferSize) with
\* process.memoryUsage().heapUsed = heapUsed
shouldFlushMemory(bufferSize, checkpoint, heapUsed) ==
    IF bufferSize # checkpoint
    THEN [flush |-> FALSE, nextMemoryCheck |-> checkpoint]
    ELSE LET bytesToMaxBytes == MAX_BYTES - BaseHeapUsed
             heapDiff == heapUsed - BaseHeapUsed
         IN  [flush |-> heapUsed > MAX_BYTES,
              nextMemoryCheck |->
                  IF heapDiff > 0
                  THEN (bytesToMaxBytes * bufferSize) \div (2 * heapDiff)
                  ELSE NoCheckpoint]

\* shouldFlushMemory(linesLoaded) of the first revision
ONE_GB == 1024             \* 1 * 1024 * 1024 * 1024 bytes, in MiB
CHECK_MEMORY_LINES == 1000

v1ShouldFlushMemory(loaded, heapUsed) ==
    loaded % CHECK_MEMORY_LINES = 0 /\ heapUsed > ONE_GB

(***************************************************************************)
(* Names of files.  The run files are named by linesLoaded; sortFile's     *)
(* tempFile is <outputFile's base>.temp in the temp folder; outputFile is  *)
(* the destination path, outside the temp folder.                          *)
(***************************************************************************)
tempFile == 0 - 1
OutputFilePath == 0 - 2

(***************************************************************************)
(* split: flushBuffer.  `st` is the state of one split call:               *)
(* [buffer, linesLoaded, nextMemoryCheck, outputFiles, parsedLog,          *)
(*  parsedOk, writes, checks]; writes collects the (filename, data) pairs  *)
(* handed to fs.writeFile / fs.writeFileSync, checks the calls of          *)
(* shouldFlushMemory.  The file name is                                    *)
(* large-sort_<linesLoaded, zero-padded>.txt, named here by linesLoaded.   *)
(***************************************************************************)
FileName(n) == n

flushBuffer(st) ==
    LET sorted == ArraySort(st.buffer)
        mapped == [i \in 1..Len(sorted) |-> JSONstringify(sorted[i])] \o <<<<>>>>
        toWrite == Join(mapped, <<NL>>)
        filename == FileName(st.linesLoaded)
    IN  [st EXCEPT !.buffer = sorted,
                   !.outputFiles = Append(@, filename),
                   !.writes = Append(@, [name |-> filename, data |-> toWrite])]

\* flushBuffer(..., outputFile) of the first revision, and the
\* `outputFiles.length = 0` that follows it: the batch goes to the destination
\* path and no run file is recorded.
flushBufferToOutputFile(st) ==
    LET sorted == ArraySort(st.buffer)
        mapped == [i \in 1..Len(sorted) |-> JSONstringify(sorted[i])] \o <<<<>>>>
        toWrite == Join(mapped, <<NL>>)
    IN  [st EXCEPT !.buffer = sorted,
                   !.outputFiles = <<>>,
                   !.writes = Append(@, [name |-> OutputFilePath, data |-> toWrite])]

(***************************************************************************)
(* split: the body of transform()'s loop for lines[i], i < end.            *)
(***************************************************************************)
\* the line-count test left out: a batch is never full
BatchFull_Never(batch) == FALSE

\* buffer.length === linesPerFile
BatchFull(batch) == Len(batch) = linesPerFile

\* One call of the memory monitor, with the batch and the counters of `st`
\* and process.memoryUsage().heapUsed = heapUsed: the batch size and the
\* checkpoint it is called with, whether it samples the heap, what it
\* returns and the checkpoint it leaves.
MonitorCall(st, heapUsed) ==
    LET size == Len(st.buffer)
        mem == IF variant = "v1"
               THEN [flush |-> v1ShouldFlushMemory(st.linesLoaded, heapUsed),
                     nextMemoryCheck |-> st.nextMemoryCheck]
               ELSE shouldFlushMemory(size, st.nextMemoryCheck, heapUsed)
    IN  [size |-> size, checkpoint |-> st.nextMemoryCheck, heapUsed |-> heapUsed,
         sampled |-> IF variant = "v1" THEN st.linesLoaded % CHECK_MEMORY_LINES = 0
                     ELSE size = st.nextMemoryCheck,
         flush |-> mem.flush, nextMemoryCheck |-> mem.nextMemoryCheck]

RECURSIVE transformLoop(_, _, _, _, _)
transformLoop(lines, i, end, st, heapUsed) ==
    IF i > end THEN st
    ELSE LET itemStr == lines[i]
             mapped == inputMapFn(itemStr)
             st1 == IF mapped = Throws
                    THEN [st EXCEPT !.parsedLog = Append(@, itemStr)]
                    ELSE [st EXCEPT !.parsedLog = Append(@, itemStr),
                                    !.parsedOk = Append(@, mapped),
                                    !.buffer = Append(@, mapped),
                                    !.linesLoaded = @ + 1]
             full == BatchFull(st1.buffer)
             mem == IF full
                    THEN [flush |-> FALSE, nextMemoryCheck |-> st1.nextMemoryCheck]
                    ELSE MonitorCall(st1, heapUsed)
             st2 == [st1 EXCEPT !.nextMemoryCheck = mem.nextMemoryCheck,
                                !.checks = IF full THEN @ ELSE Append(@, mem)]
             st3 == IF full \/ mem.flush
                    THEN [flushBuffer(st2) EXCEPT !.buffer = <<>>]
                    ELSE st2
         IN  transformLoop(lines, i + 1, end, st3, heapUsed)

\* transform(chunk, encoding, callback)
transform(chunk, st, heapUsed) ==
    LET split0 == StringSplit(chunk, inputDelimeter)
        lines == [split0 EXCEPT ![1] = st.previousRemaingData \o split0[1]]
        end == Len(lines) - 1
    IN  transformLoop(lines, 1, end,
                      [st EXCEPT !.previousRemaingData = lines[end + 1]], heapUsed)

\* the test left out: whatever is retained is taken for a record
FragmentLeft_Always(data) == TRUE

\* previousRemaingData.trim() != ''
FragmentLeft(data) == NotBlank(data)

\* flush(callback)
flush(st) ==
    LET mapped == inputMapFn(st.previousRemaingData)
        st1 == IF ~FragmentLeft(st.previousRemaingData) THEN st
               ELSE IF mapped = Throws
               THEN [st EXCEPT !.parsedLog = Append(@, st.previousRemaingData)]
               ELSE [st EXCEPT !.parsedLog = Append(@, st.previousRemaingData),
                               !.parsedOk = Append(@, mapped),
                               !.buffer = Append(@, mapped)]
    IN  IF Len(st1.buffer) = 0 THEN st1
        ELSE IF variant = "v1" /\ Len(st1.outputFiles) = 0 THEN flushBufferToOutputFile(st1)
        ELSE flushBuffer(st1)

(***************************************************************************)
(* The temp folder.  fs.writeFileSync (lib) replaces the file at once.     *)
(* fs.writeFile (ts) is not awaited by anyone: it opens the file with flag *)
(* 'w' (create or truncate) and later writes the data at position 0, each  *)
(* step whenever the thread pool gets to it.                               *)
(***************************************************************************)
RECURSIVE writeFileSync(_, _)
writeFileSync(fs, writes) ==
    IF writes = <<>> THEN fs
    ELSE writeFileSync((Head(writes).name :> Head(writes).data) @@ fs, Tail(writes))

writeFile(writes) ==
    [i \in 1..Len(writes) |->
        [name |-> writes[i].name, data |-> writes[i].data, stage |-> "open"]]

\* data written at position 0 of a file holding `old`
WriteAtStart(old, data) ==
    IF Len(data) >= Len(old) THEN data
    ELSE data \o SubSeq(old, Len(data) + 1, Len(old))

RemoveAt(s, i) == SubSeq(s, 1, i - 1) \o SubSeq(s, i + 1, Len(s))

(***************************************************************************)
(* Sorted descending by compareFn on .data: the order the merge keeps its  *)
(* readers in (the smallest record last).                                  *)
(***************************************************************************)
SortedDescending(array) ==
    \A i \in 1..(Len(array) - 1) : compareFn(array[i].data, array[i + 1].data) >= 0

RECURSIVE SeqsUpTo(_, _)
SeqsUpTo(S, n) ==
    IF n = 0 THEN {<<>>}
    ELSE LET shorter == SeqsUpTo(S, n - 1)
         IN  shorter \cup {Append(s, x) : s \in {t \in shorter : Len(t) = n - 1}, x \in S}

MergerInfos == [data : Values, stream : {0}]

(***************************************************************************)
(* What has been handed to the output stream.                              *)
(***************************************************************************)
written == Join(batches, <<>>)

(***************************************************************************)
(* split: one call of transform() and of flush(), with the writes that     *)
(* flushBuffer started.                                                    *)
(***************************************************************************)
SplitState ==
    [previousRemaingData |-> previousRemaingData, buffer |-> buffer,
     linesLoaded |-> linesLoaded, nextMemoryCheck |-> nextMemoryCheck,
     outputFiles |-> outputFiles, parsedLog |-> parsedLog, parsedOk |-> parsedOk,
     writes |-> <<>>, checks |-> <<>>]

ToTempFolder(w) == w.name # OutputFilePath

ToOutputFile(w) == w.name = OutputFilePath

SplitReturns(st) ==
    /\ previousRemaingData' = st.previousRemaingData
    /\ buffer' = st.buffer
    /\ linesLoaded' = st.linesLoaded
    /\ nextMemoryCheck' = st.nextMemoryCheck
    /\ outputFiles' = st.outputFiles
    /\ parsedLog' = st.parsedLog
    /\ parsedOk' = st.parsedOk
    /\ IF variant = "ts"
       THEN /\ pendingWrites' = pendingWrites \o writeFile(st.writes)
            /\ UNCHANGED <<files, destVars>>
       ELSE LET direct == SelectSeq(st.writes, ToOutputFile)
            IN  /\ files' = writeFileSync(files, SelectSeq(st.writes, ToTempFolder))
                /\ outputFile' = IF direct = <<>> THEN outputFile
                                 ELSE direct[Len(direct)].data
                /\ outputFileLog' = outputFileLog \o
                                       [i \in 1..Len(direct) |-> "writeFileSync"]
                /\ UNCHANGED pendingWrites

\* The input stream delivers its next chunk: any number of the characters left.
SplitTransform ==
    /\ pc = "split"
    /\ pos < Len(text)
    /\ \E n \in 1..(Len(text) - pos), heapUsed \in heapSizes :
          /\ pos' = pos + n
          /\ SplitReturns(transform(SubSeq(text, pos + 1, pos + n), SplitState, heapUsed))
    /\ UNCHANGED <<processVars, callVars, searchVars, settleVars, sortVars, tempFolder, mergeVars,
                   sinkVars>>

\* The input stream has ended; the pipeline completes and split's promise resolves.
SplitFlush ==
    /\ pc = "split"
    /\ pos = Len(text)
    /\ SplitReturns(flush(SplitState))
    /\ pc' = "splitDone"
    /\ UNCHANGED <<processVars, callVars, searchVars, settleVars, pass, firstOutput, registered, pos,
                   tempFolder, mergeVars, sinkVars>>

(***************************************************************************)
(* The thread pool runs the steps of a pending fs.writeFile.               *)
(***************************************************************************)
FsOpen ==
    \E i \in 1..Len(pendingWrites) :
        /\ pendingWrites[i].stage = "open"
        /\ IF tempFolder = "removed"
           THEN /\ pendingWrites' = RemoveAt(pendingWrites, i)       \* ENOENT
                /\ UNCHANGED files
           ELSE /\ files' = (pendingWrites[i].name :> <<>>) @@ files
                /\ pendingWrites' = [pendingWrites EXCEPT ![i].stage = "write"]
        /\ UNCHANGED <<processVars, callVars, searchVars, settleVars, destVars, sortVars, splitVars, tempFolder, mergeVars,
                       sinkVars>>

FsWrite ==
    \E i \in 1..Len(pendingWrites) :
        /\ pendingWrites[i].stage = "write"
        /\ files' = [files EXCEPT ![pendingWrites[i].name] =
                         WriteAtStart(@, pendingWrites[i].data)]
        /\ pendingWrites' = RemoveAt(pendingWrites, i)
        /\ UNCHANGED <<processVars, callVars, searchVars, settleVars, destVars, sortVars, splitVars, tempFolder, mergeVars,
                       sinkVars>>

(***************************************************************************)
(* merge.  A reader (MergerInfo) is [data, stream]: its current record and *)
(* the index of the input its iterator reads; streams[i] are the lines the *)
(* iterator of input i has not yet returned.                               *)
(***************************************************************************)
\* the call is sortFile or sortStream
Sorting == api \in {"sortFile", "sortStream"}

\* Errors, as the values a promise rejects with.
NoError == "none"
OpenError == "EACCES"            \* the input file cannot be opened
ReadError == "EIO"               \* the input stream's 'error'
RunMissing == "ENOENT"           \* a run file that is not there
ParseError == "SyntaxError"      \* thrown by inputMapFn / JSON.parse
TypeError == "TypeError"         \* a property read of undefined
FolderNotEmpty == "ENOTEMPTY"    \* rmdir of a folder that holds files
FolderGone == "ENOENT (rmdir)"   \* rmdir of a folder that is not there

\* merge's inputMapFn / outputMapFn: JSON.parse when a sort calls it.
mergeInputMapFn(s) == IF Sorting THEN JSONparse(s) ELSE inputMapFn(s)

\* inputMapFn(next.value) threw: the exception leaves the async function.
ParseThrows_Ignored(data) == FALSE

ParseThrows(data) == data = Throws

mergeOutputMapFn(x) == outputMapFn(x)

\* readers.sort(mergerInfoReverseCompareFn)
RECURSIVE InsertReader(_, _, _)
InsertReader(sorted, x, i) ==
    IF i > Len(sorted) THEN Append(sorted, x)
    ELSE IF mergerInfoReverseCompareFn(sorted[i], x) > 0
         THEN SubSeq(sorted, 1, i - 1) \o <<x>> \o SubSeq(sorted, i, Len(sorted))
         ELSE InsertReader(sorted, x, i + 1)

\* the readers left in the order of the inputs
ReadersSort_Unsorted(array) == array

RECURSIVE ReadersSort(_)
ReadersSort(array) ==
    IF array = <<>> THEN <<>>
    ELSE InsertReader(ReadersSort(SubSeq(array, 1, Len(array) - 1)), array[Len(array)], 1)

Front(s) == SubSeq(s, 1, Len(s) - 1)

\* a write issued without waiting for the previous one
AwaitPreviousPromise_Skipped == TRUE

\* `await previousPromise`: the callback of the previous write has fired.
AwaitPreviousPromise == inFlight = 0

\* the promise of the last write taken as resolved at once
AwaitLastWrite_Skipped == TRUE

\* `await new Promise(resolve => resultStream.write(..., () => resolve()))`
AwaitLastWrite == inFlight = 0

\* the inputs of the merge are file names: merge opens the file streams
FileBased == Sorting \/ api = "mergeSortedFiles"

\* mergeSortedFiles creates the read stream of every file before it calls
\* mergeSortedStreams; the merge of the first revision creates each one in
\* its round of the "Create readers" loop
NewHandles(n) ==
    [i \in 1..n |-> [created |-> FileBased /\ variant # "v1", reader |-> 0, stream |-> 0]]

\* reader.close() of input i; the first revision closes the file stream with it
CloseReader(h, i) ==
    [h EXCEPT ![i].reader = @ + 1,
              ![i].stream = IF variant = "v1" THEN @ + 1 ELSE @]

\* mergeSortedFiles without its finally block
CloseStreams_Skipped(h) == h

\* the finally block of mergeSortedFiles: stream.close() for every stream
CloseStreams(h) == [i \in 1..Len(h) |-> [h[i] EXCEPT !.stream = @ + 1]]

\* the handles when a step of the merge leaves it at `next`: mergeSortedStreams
\* has returned or thrown, and mergeSortedFiles runs its finally block
Leave(h, next) ==
    IF next \in {"mergeDone", "mergeRejected"} /\ FileBased /\ variant # "v1"
    THEN CloseStreams(h)
    ELSE h

\* merge(inputs, ...) up to the first await of mergeSortedStreams.  sortStream
\* hands it tempFiles, and mergeSortedFiles creates a read stream per name.
merge ==
    /\ pc = IF ~Sorting THEN "mergeCall"
            ELSE IF api = "sortFile" /\ variant # "v1" THEN "outputOpen"
            ELSE "splitDone"
    /\ IF Sorting
       THEN /\ streams' = [i \in 1..Len(outputFiles) |-> <<>>]
            /\ pc' = IF outputFiles = <<>> THEN "mergeDone" ELSE "createReaders"
       ELSE /\ UNCHANGED streams
            /\ pc' = IF streams = <<>> THEN "mergeDone" ELSE "createReaders"
    /\ handles' = NewHandles(Len(streams'))
    /\ UNCHANGED <<processVars, callVars, searchVars, settleVars, destVars, pass, firstOutput, registered, splitVars, fsVars,
                   opened, readers, mergerInfo, writeBuffer, bufferStringSize, bufferStr,
                   emitted, sinkVars>>

\* One round of the "Create readers" loop: `await iterator.next()` of the next
\* input returns.  A run file is read as it is at this moment; a file that is
\* not there yet fails the stream (the promise rejects, or the process stops on
\* the unhandled 'error' event, depending on the readline in use).
MergeCreateReader ==
    /\ pc = "createReaders"
    /\ opened < Len(streams)
    /\ LET i == opened + 1
           missing == Sorting /\ outputFiles[i] \notin DOMAIN files
           lines == IF Sorting THEN ReadLines(files[outputFiles[i]])
                    ELSE streams[i]
           data == mergeInputMapFn(Head(lines))
           created == [handles EXCEPT ![i].created = FileBased]
       IN  IF missing
           THEN /\ pc' \in {"mergeRejected", "crashed"}
                /\ error' = RunMissing
                /\ handles' = Leave(created, pc')
                /\ UNCHANGED <<streams, opened, readers>>
           ELSE IF lines = <<>>
           THEN /\ opened' = i
                /\ streams' = [streams EXCEPT ![i] = <<>>]
                /\ handles' = CloseReader(created, i)
                /\ UNCHANGED <<pc, readers, error>>
           ELSE IF ParseThrows(data)
           THEN /\ pc' = "mergeRejected"
                /\ error' = ParseError
                /\ handles' = Leave(created, pc')
                /\ UNCHANGED <<streams, opened, readers>>
           ELSE /\ opened' = i
                /\ streams' = [streams EXCEPT ![i] = Tail(lines)]
                /\ readers' = Append(readers, [data |-> data, stream |-> i])
                /\ handles' = created
                /\ UNCHANGED <<pc, error>>
    /\ UNCHANGED <<processVars, callVars, searchVars, reason, sinkFailed, cleanupError, destVars, pass, firstOutput, registered, splitVars, fsVars,
                   mergerInfo, writeBuffer, bufferStringSize, bufferStr, emitted, sinkVars>>

\* After the last reader: the reverse sort, and the loop begins.  The merge of
\* the first revision opens its own write stream on the destination path here
\* (flags 'w': the file is created or truncated).
MergeSortReaders ==
    /\ pc = "createReaders"
    /\ opened = Len(streams)
    /\ readers' = ReadersSort(readers)
    /\ pc' = "loop"
    /\ IF variant = "v1"
       THEN /\ outputFile' = <<>>
            /\ outputFileLog' = Append(outputFileLog, "createWriteStream")
       ELSE UNCHANGED destVars
    /\ UNCHANGED <<processVars, callVars, searchVars, settleVars, pass, firstOutput, registered, splitVars, fsVars,
                   streams, opened, mergerInfo, writeBuffer, bufferStringSize, bufferStr,
                   emitted, handles, sinkVars>>

(***************************************************************************)
(* The merge loop, from its head to the next await.                        *)
(*   ts:  while(readers.length > 0): take the last reader, append its      *)
(*        record to the write buffer, and flush above the threshold.       *)
(*   lib: while(readers.length !== 1) likewise, the reader staying in the  *)
(*        array and the flush coming before the append; then the loop over *)
(*        the last remaining reader (pc "last").                           *)
(***************************************************************************)
\* the reader left where it is
TakeLast_Kept(array) == array

\* readers.length--: the array without the reader just taken from its end
TakeLast(array) == Front(array)

tsMergeEmit ==
    IF readers = <<>>
    THEN /\ pc' = "finalFlush"
         /\ UNCHANGED <<readers, mergerInfo, writeBuffer, bufferStringSize, bufferStr,
                        emitted, error>>
    ELSE LET info == readers[Len(readers)]
             dataStr == mergeOutputMapFn(info.data)
             pushed == Append(writeBuffer, dataStr)
             size == bufferStringSize + Len(dataStr)
         IN  /\ mergerInfo' = info
             /\ readers' = TakeLast(readers)
             /\ emitted' = Append(emitted, info.data)
             /\ UNCHANGED error
             /\ IF size > maxStringLength
                THEN /\ bufferStr' = Join(Append(pushed, <<>>), outputDelimeter)
                     /\ writeBuffer' = <<>>
                     /\ bufferStringSize' = 0
                     /\ pc' = "flush"
                ELSE /\ writeBuffer' = pushed
                     /\ bufferStringSize' = size
                     /\ pc' = "advance"
                     /\ UNCHANGED bufferStr

libMergeEmit ==
    IF pc = "loop" /\ readers = <<>>
    THEN /\ pc' = "mergeRejected"          \* readers[-1].data: TypeError
         /\ error' = TypeError
         /\ UNCHANGED <<readers, mergerInfo, writeBuffer, bufferStringSize, bufferStr,
                        emitted>>
    ELSE LET last == pc = "last" \/ Len(readers) = 1
             info == IF pc = "last" THEN mergerInfo ELSE readers[Len(readers)]
             dataStr == mergeOutputMapFn(info.data)
             size == bufferStringSize + Len(dataStr)
         IN  /\ mergerInfo' = info
             /\ UNCHANGED <<readers, error>>
             /\ IF size > maxStringLength
                THEN /\ bufferStr' = IF last THEN Join(writeBuffer, outputDelimeter)
                                     ELSE Join(Append(writeBuffer, <<>>), outputDelimeter)
                     /\ writeBuffer' = <<>>
                     /\ bufferStringSize' = Len(dataStr)
                     /\ pc' = IF last THEN "lastFlush" ELSE "flush"
                     /\ UNCHANGED emitted
                ELSE /\ writeBuffer' = Append(writeBuffer, dataStr)
                     /\ bufferStringSize' = size
                     /\ emitted' = Append(emitted, info.data)
                     /\ pc' = IF last THEN "lastAdvance" ELSE "advance"
                     /\ UNCHANGED bufferStr

MergeEmit ==
    /\ pc \in {"loop", "last"}
    /\ IF variant # "lib" THEN tsMergeEmit ELSE libMergeEmit
    /\ handles' = Leave(handles, pc')
    /\ UNCHANGED <<processVars, callVars, searchVars, reason, sinkFailed, cleanupError, destVars, pass, firstOutput, registered, splitVars, fsVars,
                   streams, opened, sinkVars>>

\* The threshold flush, once `await previousPromise` returns: the write of
\* the joined buffer is issued (lib then appends the record that crossed the
\* threshold).
MergeFlush ==
    /\ pc \in {"flush", "lastFlush"}
    /\ AwaitPreviousPromise
    /\ batches' = Append(batches, bufferStr)
    /\ inFlight' = inFlight + 1
    /\ IF variant # "lib"
       THEN UNCHANGED <<writeBuffer, emitted>>
       ELSE /\ writeBuffer' = Append(writeBuffer, mergeOutputMapFn(mergerInfo.data))
            /\ emitted' = Append(emitted, mergerInfo.data)
    /\ pc' = IF pc = "flush" THEN "advance" ELSE "lastAdvance"
    /\ UNCHANGED <<processVars, callVars, searchVars, settleVars, destVars, pass, firstOutput, registered, splitVars, fsVars,
                   streams, opened, readers, mergerInfo, bufferStringSize, bufferStr, handles>>

\* `next.value == undefined`: readline yields strings, and no string, the
\* empty one included, is loosely equal to undefined
ValueIsUndefined(value) == FALSE

\* do { next = await mergerInfo.iter.next() } while(next.value == undefined
\* && !next.done): the lines from the one the loop stops at
RECURSIVE SkipUndefined(_)
SkipUndefined(lines) ==
    IF lines # <<>> /\ ValueIsUndefined(Head(lines)) THEN SkipUndefined(Tail(lines))
    ELSE lines

\* `await mergerInfo.iter.next()` returns: the reader takes its next record
\* and is put back in order, or is closed at the end of its input.
tsMergeAdvance ==
    LET s == mergerInfo.stream
        lines == SkipUndefined(streams[s])
        info == [data |-> mergeInputMapFn(Head(lines)), stream |-> s]
        insertIdx == binarySearch(info, readers)
    IN  IF lines = <<>>
        THEN /\ pc' = "loop"
             /\ UNCHANGED <<streams, readers, mergerInfo, error>>
        ELSE IF ParseThrows(info.data)
        THEN /\ pc' = "mergeRejected"
             /\ error' = ParseError
             /\ UNCHANGED <<streams, readers, mergerInfo>>
        ELSE IF insertIdx = Throws
        THEN /\ pc' = "mergeRejected"
             /\ error' = TypeError
             /\ UNCHANGED <<streams, readers, mergerInfo>>
        ELSE /\ streams' = [streams EXCEPT ![s] = Tail(lines)]
             /\ mergerInfo' = info
             /\ readers' = Splice(readers, insertIdx, info)
             /\ pc' = "loop"
             /\ UNCHANGED error

\* every reader left where it stands
StaysAtTail_Always(info, previous) == TRUE

\* lib: the reader keeps its place at the end of the array unless
\* mergerInfoReverseCompareFn(mergerInfo, previous) < 0
StaysAtTail(info, previous) == mergerInfoReverseCompareFn(info, previous) >= 0

libMergeAdvance ==
    LET s == mergerInfo.stream
        info == [data |-> mergeInputMapFn(Head(streams[s])), stream |-> s]
        previous == readers[Len(readers) - 1]
        others == Front(readers)
    IN  IF streams[s] = <<>>
        THEN /\ pc' = IF pc = "advance" THEN "loop" ELSE "finalFlush"
             /\ readers' = IF pc = "advance" THEN others ELSE readers
             /\ UNCHANGED <<streams, mergerInfo, error>>
        ELSE IF ParseThrows(info.data)
        THEN /\ pc' = "mergeRejected"
             /\ error' = ParseError
             /\ UNCHANGED <<streams, readers, mergerInfo>>
        ELSE IF pc = "lastAdvance"
        THEN /\ streams' = [streams EXCEPT ![s] = Tail(@)]
             /\ mergerInfo' = info
             /\ pc' = "last"
             /\ UNCHANGED <<readers, error>>
        ELSE IF StaysAtTail(info, previous)
        THEN /\ streams' = [streams EXCEPT ![s] = Tail(@)]
             /\ mergerInfo' = info
             /\ readers' = Append(others, info)
             /\ pc' = "loop"
             /\ UNCHANGED error
        ELSE /\ streams' = [streams EXCEPT ![s] = Tail(@)]
             /\ mergerInfo' = info
             /\ readers' = Append(others, info)
             /\ pc' = "reposition"
             /\ UNCHANGED error

MergeAdvance ==
    /\ pc \in {"advance", "lastAdvance"}
    /\ IF variant # "lib" THEN tsMergeAdvance ELSE libMergeAdvance
    /\ LET s == mergerInfo.stream
       IN  handles' = Leave(IF streams[s] = <<>> THEN CloseReader(handles, s) ELSE handles, pc')
    /\ UNCHANGED <<processVars, callVars, searchVars, reason, sinkFailed, cleanupError, destVars, pass, firstOutput, registered, splitVars, fsVars,
                   opened, writeBuffer, bufferStringSize, bufferStr, emitted, sinkVars>>

\* lib: the last reader has taken its next record where it stands in the
\* array (mergerInfo.data = ...) and that record belongs before the previous
\* reader's: readers.pop(), binarySearch, readers.splice.
MergeReposition ==
    /\ pc = "reposition"
    /\ LET others == Front(readers)
           insertIdx == binarySearch(mergerInfo, others)
       IN  IF insertIdx = Throws
           THEN /\ pc' = "mergeRejected"
                /\ error' = TypeError
                /\ UNCHANGED readers
           ELSE /\ readers' = Splice(others, insertIdx, mergerInfo)
                /\ pc' = "loop"
                /\ UNCHANGED error
    /\ handles' = Leave(handles, pc')
    /\ UNCHANGED <<processVars, callVars, searchVars, reason, sinkFailed, cleanupError, destVars, pass, firstOutput, registered, splitVars, fsVars,
                   streams, opened, mergerInfo, writeBuffer, bufferStringSize, bufferStr,
                   emitted, sinkVars>>

\* After the loop: `await previousPromise`, then the last buffer is written.
MergeFinalFlush ==
    /\ pc = "finalFlush"
    /\ AwaitPreviousPromise
    /\ IF variant # "lib"
       THEN IF Len(writeBuffer) > 0
            THEN /\ batches' = Append(batches, Join(writeBuffer, <<NL>>))
                 /\ inFlight' = inFlight + 1
                 /\ pc' = "finalWrite"
            ELSE /\ pc' = "mergeDone"
                 /\ UNCHANGED sinkVars
       ELSE /\ batches' = Append(batches, Join(writeBuffer, outputDelimeter))
            /\ inFlight' = inFlight + 1
            /\ pc' = "finalWrite"
    /\ handles' = Leave(handles, pc')
    /\ UNCHANGED <<processVars, callVars, searchVars, settleVars, destVars, pass, firstOutput, registered, splitVars, fsVars,
                   streams, opened, readers, mergerInfo, writeBuffer, bufferStringSize,
                   bufferStr, emitted>>

\* The promise of the last write resolves and mergeSortedStreams returns.
MergeReturn ==
    /\ pc = "finalWrite"
    /\ AwaitLastWrite
    /\ pc' = "mergeDone"
    /\ handles' = Leave(handles, pc')
    /\ UNCHANGED <<processVars, callVars, searchVars, settleVars, destVars, pass, firstOutput, registered, splitVars, fsVars,
                   streams, opened, readers, mergerInfo, writeBuffer, bufferStringSize,
                   bufferStr, emitted, sinkVars>>

\* The output stream has taken a chunk and calls the write's callback (with
\* an error once the stream has failed: the callback `() => res()` does not
\* look at it).  sortFile's stream writes to tempFile, the stream of the first
\* revision's merge to the destination path.
SinkWriteCallback ==
    /\ inFlight > 0
    /\ inFlight' = inFlight - 1
    /\ LET chunk == batches[Len(batches) - inFlight + 1]
       IN  IF api # "sortFile" \/ sinkFailed
           THEN UNCHANGED <<files, destVars>>
           ELSE IF variant = "v1"
           THEN /\ outputFile' = outputFile \o chunk
                /\ outputFileLog' = Append(outputFileLog, "write")
                /\ UNCHANGED files
           ELSE /\ files' = [files EXCEPT ![tempFile] = @ \o chunk]
                /\ UNCHANGED destVars
    /\ UNCHANGED <<processVars, callVars, searchVars, settleVars, sortVars, splitVars, tempFolder,
                   pendingWrites, mergeVars, batches>>

\* A write to the output stream fails.  The stream calls the write's callback
\* with the error, which `() => res()` drops, and emits 'error': nobody
\* listens on the stream sortFile created, so the process stops there; a
\* caller's stream may have a listener.
SinkWriteError ==
    /\ fault = "write"
    /\ ~sinkFailed
    /\ inFlight > 0
    /\ pc \notin {"crashed", "pending"}
    /\ inFlight' = inFlight - 1
    /\ sinkFailed' = TRUE
    /\ IF api = "sortFile" THEN pc' = "crashed" ELSE pc' \in {pc, "crashed"}
    /\ UNCHANGED <<processVars, callVars, searchVars, error, reason, cleanupError, destVars, pass,
                   firstOutput, registered, splitVars, fsVars, mergeVars, batches>>

(***************************************************************************)
(* sortFile, up to split: `await new Promise(r => inputStream.once('open', *)
(* r))`.  When the file cannot be opened the stream emits 'error' instead, *)
(* which has no listener: the process stops on the uncaught exception, or, *)
(* where the host catches those, the promise stays pending.                *)
(***************************************************************************)
SortFileOpen ==
    /\ pc = "open"
    /\ IF fault = "open"
       THEN /\ pc' \in {"crashed", "pending"}
            /\ error' = OpenError
       ELSE /\ pc' = "split"
            /\ UNCHANGED error
    /\ UNCHANGED <<processVars, callVars, searchVars, reason, sinkFailed, cleanupError, destVars, pass, firstOutput,
                   registered, splitVars, fsVars, mergeVars, sinkVars>>

\* The input stream fails while split reads it.  pipeline() hands the error to
\* its callback and split rejects; the first revision pipes without an error
\* handler and resolves only on 'finish'.
SplitReadError ==
    /\ pc = "split"
    /\ fault = "read"
    /\ error' = ReadError
    /\ IF variant = "v1" THEN pc' \in {"crashed", "pending"} ELSE pc' = "splitRejected"
    /\ UNCHANGED <<processVars, callVars, searchVars, reason, sinkFailed, cleanupError, destVars, pass, firstOutput,
                   registered, splitVars, fsVars, mergeVars, sinkVars>>

\* sortFile after split: the write stream on tempFile is created and opened.
SortFileCreateOutput ==
    /\ api = "sortFile"
    /\ variant # "v1"
    /\ pc = "splitDone"
    /\ files' = (tempFile :> <<>>) @@ files
    /\ pc' = "outputOpen"
    /\ UNCHANGED <<processVars, callVars, searchVars, settleVars, destVars, pass, firstOutput,
                   registered, splitVars, tempFolder, pendingWrites, mergeVars, sinkVars>>

(***************************************************************************)
(* sortFile / sortStream: the end of the try block and the finally block.  *)
(* After a merge that returned, sortFile renames tempFile to outputFile.   *)
(* deleteFiles: rmdirSync removes the temp folder only when it is empty,   *)
(* and its error is swallowed.  Then the entry leaves the registry and the *)
(* promise settles, with the error that was thrown if there is one.        *)
(***************************************************************************)
\* the entry left in the registry
MapDelete_Skipped(entry) == entry

\* TEMP_SORTS_TO_CLEAN_BEFORE_EXIT.delete(tempFolder)
MapDelete(entry) == FALSE

\* an error other than the one thrown
Rethrow_Replaced(e) == "Error"

\* leaving `finally` without a catch: the pending exception continues
Rethrow(e) == e

Without(fs, name) == [n \in DOMAIN fs \ {name} |-> fs[n]]

\* fs.rmdirSync(tempFolder) on a folder in state `folder` holding the files
\* `fs`: the error it throws, or NoError when the folder has been removed
rmdirSync(folder, fs) ==
    IF folder = "removed" THEN FolderGone
    ELSE IF DOMAIN fs # {} THEN FolderNotEmpty
    ELSE NoError

\* deleteFiles with the catch taken away: what rmdirSync throws leaves it
deleteFiles_Rethrows(thrown) == thrown

\* deleteFiles: try { fs.rmdirSync(tempFolder) } catch {} -- what leaves it
\* when rmdirSync has thrown `thrown`
deleteFiles(thrown) == NoError

Finally ==
    /\ Sorting
    /\ pc \in {"mergeDone", "mergeRejected", "splitRejected"}
    /\ LET rename == api = "sortFile" /\ variant # "v1" /\ pc = "mergeDone"
           gone == fault = "gone"
           left == IF gone THEN <<>>
                   ELSE IF rename THEN Without(files, tempFile) ELSE files
           folder == IF gone THEN "removed" ELSE tempFolder
           thrown == rmdirSync(folder, left)
           escaped == deleteFiles(thrown)
       IN  /\ files' = left
           /\ IF rename
              THEN /\ outputFile' = files[tempFile]
                   /\ outputFileLog' = Append(outputFileLog, "rename")
              ELSE UNCHANGED destVars
           /\ tempFolder' = IF thrown = NoError THEN "removed" ELSE folder
           /\ cleanupError' = thrown
           /\ registered' = IF escaped = NoError THEN MapDelete(registered) ELSE registered
           /\ reason' = IF escaped # NoError THEN escaped
                        ELSE IF pc = "mergeDone" THEN NoError ELSE Rethrow(error)
           /\ pc' = IF escaped = NoError /\ pc = "mergeDone" THEN "resolved" ELSE "rejected"
    /\ UNCHANGED <<processVars, callVars, searchVars, error, sinkFailed, pass, firstOutput, splitVars,
                   pendingWrites, mergeVars, sinkVars>>

(***************************************************************************)
(* The state a call starts in.                                             *)
(***************************************************************************)
NoReader == [data |-> 0, stream |-> 0]

\* binarySearch(target, array, compareFn) not called
IdleSearch ==
    /\ bsArray = <<>>
    /\ bsTarget = NoReader
    /\ bsResult = NotCalled

\* the locals of split, the first memory check at checkLines records
SplitLocalsWith(checkLines) ==
    /\ pos = 0
    /\ previousRemaingData = <<>>
    /\ buffer = <<>>
    /\ linesLoaded = 0
    /\ nextMemoryCheck = Min(checkLines, linesPerFile)
    /\ outputFiles = <<>>
    /\ parsedLog = <<>>
    /\ parsedOk = <<>>

SplitLocals == SplitLocalsWith(CHECK_LINES)

\* a fresh temp folder (mkdtempSync)
NewTempFolder ==
    /\ tempFolder = "exists"
    /\ files = <<>>
    /\ pendingWrites = <<>>

\* the locals of mergeSortedStreams
MergeLocals ==
    /\ opened = 0
    /\ readers = <<>>
    /\ mergerInfo = NoReader
    /\ writeBuffer = <<>>
    /\ bufferStringSize = 0
    /\ bufferStr = <<>>
    /\ emitted = <<>>
    /\ handles = <<>>

\* an output stream nothing has been written to
NewOutputStream ==
    /\ batches = <<>>
    /\ inFlight = 0

\* what the destination path holds before the call
PreviousContent == <<"9", NL>>

\* nothing thrown, nothing settled, the destination as it was
NotSettled ==
    /\ error = NoError
    /\ reason = NoError
    /\ sinkFailed = FALSE
    /\ cleanupError = NoError
    /\ outputFile = PreviousContent
    /\ outputFileLog = <<>>

\* the call is the only one of its process: the state of the other calls
\* is not followed
OneCall ==
    /\ sorts = <<>>
    /\ registry = {}
    /\ tmpdir = <<>>
    /\ fileLog = {}

(***************************************************************************)
(* Inputs.                                                                 *)
(***************************************************************************)
MAX_STRING_LENGTH == 7549747     \* Math.pow(2, 23) * .90, as a bound on a length

NewLine == <<<<NL>>>>                           \* '\n'
TwoChars == <<<<",", ";">>>>                    \* ',;'
Pattern == <<<<",", ";">>, <<",">>>>            \* /,;|,/
InputDelimeters == {NewLine, TwoChars, Pattern}
OutputDelimeters == {<<NL>>, <<",">>}

Range(s) == {s[i] : i \in 1..Len(s)}

Strings(vals) == [i \in 1..Len(vals) |-> String(vals[i])]

\* the records vals, separated by sep, with or without a last delimiter
DelimitedTexts(delimeter) ==
    {Join(Strings(vals), sep) \o trail :
        vals \in SeqsUpTo(Values, MaxRecords), sep \in Range(delimeter),
        trail \in {<<>>, Head(delimeter)}}

\* the records vals, the last delimiter followed by nothing but a space
BlankTailTexts(delimeter) ==
    {Join(Strings(vals), sep) \o Head(delimeter) \o <<" ">> :
        vals \in SeqsUpTo(Values, MaxCallRecords), sep \in Range(delimeter)}

ScenarioText == <<"5", NL, "3", NL, "1", "0", NL, "1", NL>>

SortedAscending(array) ==
    \A i \in 1..(Len(array) - 1) : compareFn(array[i], array[i + 1]) <= 0

\* the lines of the streams of at most n records that are sorted by compareFn
SortedRuns(n) == {Strings(vals) : vals \in {v \in SeqsUpTo(Values, n) : SortedAscending(v)}}

\* the lists of at most n sorted streams holding at most total records
RECURSIVE StreamLists(_, _)
StreamLists(n, total) ==
    IF n = 0 THEN {<<>>}
    ELSE {<<>>} \cup UNION {{<<run>> \o rest : rest \in StreamLists(n - 1, total - Len(run))} :
                               run \in SortedRuns(total)}

ExampleStreams == <<Strings(<<1, 4, 7>>), Strings(<<2, 5>>), Strings(<<3, 6, 8, 9>>)>>

MergeInputs == StreamLists(MaxStreams, MaxMergeRecords) \cup {ExampleStreams}

(***************************************************************************)
(* Specification SpecSearch: binarySearch applied to every descending      *)
(* array and every target within the bounds.                               *)
(***************************************************************************)
InitSearch ==
    /\ api = "binarySearch"
    /\ variant \in Variants
    /\ compareKind \in CompareKinds
    /\ bsArray \in {a \in SeqsUpTo(MergerInfos, MaxArray) : SortedDescending(a)}
    /\ bsTarget \in MergerInfos
    /\ bsResult = NotCalled
    /\ text = <<>>
    /\ inputDelimeter = NewLine
    /\ outputDelimeter = <<NL>>
    /\ linesPerFile = 1
    /\ maxStringLength = MAX_STRING_LENGTH
    /\ pc = "idle"
    /\ pass = 1
    /\ firstOutput = <<>>
    /\ registered = FALSE
    /\ inputs = <<>>
    /\ streams = <<>>
    /\ SplitLocals
    /\ NewTempFolder
    /\ MergeLocals
    /\ NewOutputStream
    /\ fault = "none"
    /\ NotSettled
    /\ OneCall
    /\ heapSizes = HeapSamples

CallBinarySearch ==
    /\ api = "binarySearch"
    /\ bsResult = NotCalled
    /\ bsResult' = binarySearch(bsTarget, bsArray)
    /\ UNCHANGED <<processVars, callVars, bsArray, bsTarget, sortVars, settleVars, destVars, splitVars,
                   fsVars, mergeVars, sinkVars>>

NextSearch == CallBinarySearch

SpecSearch == InitSearch /\ [][NextSearch]_vars

(***************************************************************************)
(* Specification SpecSplit: split on its own, over every text, delimiter   *)
(* and chunking within the bounds.                                         *)
(***************************************************************************)
InitSplit ==
    /\ api = "split"
    /\ variant \in Variants
    /\ compareKind = "asc"
    /\ inputDelimeter \in InputDelimeters
    /\ text \in DelimitedTexts(inputDelimeter) \cup BlankTailTexts(inputDelimeter)
    /\ outputDelimeter = <<NL>>
    /\ linesPerFile \in 1..MaxLinesPerFile
    /\ maxStringLength = MAX_STRING_LENGTH
    /\ pc = "split"
    /\ pass = 1
    /\ firstOutput = <<>>
    /\ registered = FALSE
    /\ inputs = <<>>
    /\ streams = <<>>
    /\ IdleSearch
    /\ SplitLocals
    /\ NewTempFolder
    /\ MergeLocals
    /\ NewOutputStream
    /\ fault = "none"
    /\ NotSettled
    /\ OneCall
    /\ heapSizes = HeapSamples

NextSplit == SplitTransform \/ SplitFlush \/ FsOpen \/ FsWrite

SpecSplit == InitSplit /\ [][NextSplit]_vars

(***************************************************************************)
(* Specification SpecMerge: merge called with Readable streams that are    *)
(* each sorted by compareFn.                                               *)
(***************************************************************************)
InitMergeWith(kinds) ==
    /\ api = "merge"
    /\ variant \in Variants
    /\ compareKind \in kinds
    /\ inputs \in MergeInputs
    /\ streams = inputs
    /\ text = <<>>
    /\ inputDelimeter = NewLine
    /\ outputDelimeter \in OutputDelimeters
    /\ linesPerFile = 1
    /\ maxStringLength \in {ScaledStringLength, MAX_STRING_LENGTH}
    /\ pc = "mergeCall"
    /\ pass = 1
    /\ firstOutput = <<>>
    /\ registered = FALSE
    /\ IdleSearch
    /\ SplitLocals
    /\ NewTempFolder
    /\ MergeLocals
    /\ NewOutputStream
    /\ fault = "none"
    /\ NotSettled
    /\ OneCall
    /\ heapSizes = HeapSamples

InitMerge == InitMergeWith(CompareKinds)

NextMerge ==
    \/ merge
    \/ MergeCreateReader
    \/ MergeSortReaders
    \/ MergeEmit
    \/ MergeFlush
    \/ MergeAdvance
    \/ MergeReposition
    \/ MergeFinalFlush
    \/ MergeReturn
    \/ SinkWriteCallback

SpecMerge == InitMerge /\ [][NextMerge]_vars

\* The same with the event loop running whatever is ready: a continuation
\* whose await has returned is resumed, a write the stream has taken gets
\* its callback.
RECURSIVE RecordCount(_)
RecordCount(seqs) == IF seqs = <<>> THEN 0 ELSE Len(Head(seqs)) + RecordCount(Tail(seqs))

InitMergeLive == InitMerge /\ RecordCount(inputs) <= MaxLiveRecords

SpecMergeLive == InitMergeLive /\ [][NextMerge]_vars /\ WF_vars(NextMerge)

(***************************************************************************)
(* Specification Spec: sortStream, and a second sortStream of what the     *)
(* first one wrote, with the same arguments.                               *)
(***************************************************************************)
InitWith(kinds) ==
    /\ api = "sortStream"
    /\ variant \in Variants
    /\ compareKind \in kinds
    /\ inputDelimeter = NewLine
    /\ text \in DelimitedTexts(inputDelimeter) \cup {ScenarioText}
    /\ outputDelimeter = <<NL>>
    /\ linesPerFile \in 1..MaxLinesPerFile
    /\ maxStringLength \in {ScaledStringLength, MAX_STRING_LENGTH}
    /\ pc = "split"
    /\ pass = 1
    /\ firstOutput = <<>>
    /\ registered = TRUE
    /\ inputs = <<>>
    /\ streams = <<>>
    /\ IdleSearch
    /\ SplitLocals
    /\ NewTempFolder
    /\ MergeLocals
    /\ NewOutputStream
    /\ fault = "none"
    /\ NotSettled
    /\ OneCall
    /\ heapSizes = HeapSamples

Init == InitWith(CompareKinds)

\* The caller sorts the output of the first sort: sortStream up to split.
Resort ==
    /\ api = "sortStream"
    /\ pc = "resolved"
    /\ pass = 1
    /\ pass' = 2
    /\ firstOutput' = written
    /\ text' = written
    /\ registered' = TRUE
    /\ pc' = "split"
    /\ pos' = 0
    /\ previousRemaingData' = <<>>
    /\ buffer' = <<>>
    /\ linesLoaded' = 0
    /\ nextMemoryCheck' = Min(CHECK_LINES, linesPerFile)
    /\ outputFiles' = <<>>
    /\ parsedLog' = <<>>
    /\ parsedOk' = <<>>
    /\ tempFolder' = "exists"
    /\ files' = <<>>
    /\ pendingWrites' = <<>>
    /\ streams' = <<>>
    /\ opened' = 0
    /\ readers' = <<>>
    /\ mergerInfo' = NoReader
    /\ writeBuffer' = <<>>
    /\ bufferStringSize' = 0
    /\ bufferStr' = <<>>
    /\ emitted' = <<>>
    /\ handles' = <<>>
    /\ batches' = <<>>
    /\ inFlight' = 0
    /\ UNCHANGED <<api, variant, compareKind, inputDelimeter, outputDelimeter, linesPerFile,
                   maxStringLength, inputs, fault, heapSizes, searchVars, settleVars,
                   destVars, processVars>>

Next ==
    \/ SplitTransform
    \/ SplitFlush
    \/ FsOpen
    \/ FsWrite
    \/ merge
    \/ MergeCreateReader
    \/ MergeSortReaders
    \/ MergeEmit
    \/ MergeFlush
    \/ MergeAdvance
    \/ MergeReposition
    \/ MergeFinalFlush
    \/ MergeReturn
    \/ SinkWriteCallback
    \/ Finally
    \/ Resort

Spec == Init /\ [][Next]_vars

(***************************************************************************)
(* Specification SpecDefault: merge and sortStream called without a        *)
(* compareFn, so that the default comparator is used.                      *)
(***************************************************************************)
DefaultKind == {"default"}

InitDefault == InitMergeWith(DefaultKind) \/ InitWith(DefaultKind)

SpecDefault == InitDefault /\ [][Next]_vars

(***************************************************************************)
(* Specification SpecCall: one call of sortFile or sortStream, over texts   *)
(* that may hold malformed records, with or without an I/O fault.  (The    *)
(* first revision opens the input file inside split: there a file that     *)
(* cannot be opened is a read that fails before the first chunk.)          *)
(***************************************************************************)
Malformed == "x"

\* a malformed line amid well-formed numeric lines
MalformedScenarioText == <<"3", NL, Malformed, NL, "2">>

\* records that make two runs of unequal length when linesPerFile = 2
TwoRunsText == <<"1", NL, "3", NL, "2", NL>>

\* the input texts of a call: at most MaxCallRecords pieces, each a record or
\* a malformed line, with and without the last delimiter, and the scenarios
CallTexts ==
    {Join(pieces, <<NL>>) \o trail :
        pieces \in SeqsUpTo({String(v) : v \in Values} \cup {<<Malformed>>}, MaxCallRecords),
        trail \in {<<>>, <<NL>>}}
    \cup {MalformedScenarioText, TwoRunsText}

Calls ==
    {[api |-> "sortStream", variant |-> v, fault |-> f] :
        v \in {"ts", "lib"}, f \in {"none", "read", "write", "gone"}}
    \cup {[api |-> "sortFile", variant |-> v, fault |-> f] :
        v \in {"ts", "lib"}, f \in {"none", "open", "read", "write", "gone"}}
    \cup {[api |-> "sortFile", variant |-> "v1", fault |-> f] :
        f \in {"none", "read", "write", "gone"}}

InitCall ==
    /\ \E call \in Calls :
          /\ api = call.api
          /\ variant = call.variant
          /\ fault = call.fault
    /\ compareKind = "asc"
    /\ inputDelimeter = NewLine
    /\ text \in CallTexts
    /\ outputDelimeter = <<NL>>
    /\ linesPerFile \in 1..MaxLinesPerFile
    /\ maxStringLength \in {ScaledStringLength, MAX_STRING_LENGTH}
    /\ pc = IF api = "sortFile" /\ variant # "v1" THEN "open" ELSE "split"
    /\ pass = 1
    /\ firstOutput = <<>>
    /\ registered = TRUE
    /\ inputs = <<>>
    /\ streams = <<>>
    /\ IdleSearch
    /\ SplitLocals
    /\ NewTempFolder
    /\ MergeLocals
    /\ NewOutputStream
    /\ NotSettled
    /\ OneCall
    /\ heapSizes = HeapSamples

NextCall ==
    \/ SortFileOpen
    \/ SplitTransform
    \/ SplitFlush
    \/ SplitReadError
    \/ FsOpen
    \/ FsWrite
    \/ SortFileCreateOutput
    \/ merge
    \/ MergeCreateReader
    \/ MergeSortReaders
    \/ MergeEmit
    \/ MergeFlush
    \/ MergeAdvance
    \/ MergeReposition
    \/ MergeFinalFlush
    \/ MergeReturn
    \/ SinkWriteCallback
    \/ SinkWriteError
    \/ Finally

SpecCall == InitCall /\ [][NextCall]_vars

(***************************************************************************)
(* Specification SpecMergeFault: merge called with Readable streams, each  *)
(* sorted by compareFn, with or without one line that inputMapFn throws on.*)
(***************************************************************************)
\* the stream lists with line j of stream i replaced by a malformed line
WithMalformedLine(ins) ==
    UNION {{[ins EXCEPT ![i] = [@ EXCEPT ![j] = <<Malformed>>]] : j \in 1..Len(ins[i])} :
              i \in 1..Len(ins)}

MalformedMergeInputs ==
    UNION {WithMalformedLine(ins) : ins \in StreamLists(MaxStreams, MaxMergeRecords)}

InitMergeFault ==
    /\ api = "merge"
    /\ variant \in Variants
    /\ compareKind \in CompareKinds
    /\ inputs \in MergeInputs \cup MalformedMergeInputs
    /\ streams = inputs
    /\ text = <<>>
    /\ inputDelimeter = NewLine
    /\ outputDelimeter \in OutputDelimeters
    /\ linesPerFile = 1
    /\ maxStringLength \in {ScaledStringLength, MAX_STRING_LENGTH}
    /\ pc = "mergeCall"
    /\ pass = 1
    /\ firstOutput = <<>>
    /\ registered = FALSE
    /\ IdleSearch
    /\ SplitLocals
    /\ NewTempFolder
    /\ MergeLocals
    /\ NewOutputStream
    /\ fault = "none"
    /\ NotSettled
    /\ OneCall
    /\ heapSizes = HeapSamples

SpecMergeFault == InitMergeFault /\ [][NextMerge]_vars

(***************************************************************************)
(* Specification SpecMergeFiles: the merge of files (mergeSortedFiles; the  *)
(* merge of the first revision, which sortFile calls on the run files).    *)
(* Each file is sorted by compareFn; one line of one file may be a line    *)
(* the parse callback throws on, or an empty or whitespace-only line.      *)
(***************************************************************************)
BlankLines == {<<>>, <<" ">>}

InsertAt(lines, j, line) == SubSeq(lines, 1, j - 1) \o <<line>> \o SubSeq(lines, j, Len(lines))

\* the file lists with a blank line put before line j of file i, or at its end
WithBlankLine(ins) ==
    UNION {{[ins EXCEPT ![i] = InsertAt(@, j, blank)] :
               j \in 1..(Len(ins[i]) + 1), blank \in BlankLines} :
              i \in 1..Len(ins)}

FileInputs ==
    LET sorted == StreamLists(MaxStreams, MaxFileRecords)
    IN  sorted \cup UNION {WithMalformedLine(ins) \cup WithBlankLine(ins) : ins \in sorted}

InitMergeFiles ==
    /\ api = "mergeSortedFiles"
    /\ variant \in {"v1", "ts", "lib"}
    /\ compareKind = "asc"
    /\ inputs \in FileInputs
    /\ streams = inputs
    /\ text = <<>>
    /\ inputDelimeter = NewLine
    /\ outputDelimeter = <<NL>>
    /\ linesPerFile = 1
    /\ maxStringLength \in {ScaledStringLength, MAX_STRING_LENGTH}
    /\ pc = "mergeCall"
    /\ pass = 1
    /\ firstOutput = <<>>
    /\ registered = FALSE
    /\ IdleSearch
    /\ SplitLocals
    /\ NewTempFolder
    /\ MergeLocals
    /\ NewOutputStream
    /\ fault = "none"
    /\ NotSettled
    /\ OneCall
    /\ heapSizes = HeapSamples

SpecMergeFiles == InitMergeFiles /\ [][NextMerge]_vars

(***************************************************************************)
(* Specification SpecMonitor: split with the heap growing.  The first      *)
(* memory check is scaled down to the size of the inputs, as if split's    *)
(* Math.min(1_000, linesPerFile) read Math.min(ScaledCheckLines,           *)
(* linesPerFile), so that a batch reaches it before the line threshold.    *)
(* The texts hold records and lines inputMapFn throws on.                  *)
(***************************************************************************)
InitMonitor ==
    /\ api = "split"
    /\ variant \in {"v1", "ts", "lib"}
    /\ compareKind = "asc"
    /\ inputDelimeter = NewLine
    /\ text \in DelimitedTexts(inputDelimeter) \cup CallTexts
    /\ outputDelimeter = <<NL>>
    /\ linesPerFile \in 1..(MaxLinesPerFile + 1)
    /\ maxStringLength = MAX_STRING_LENGTH
    /\ pc = "split"
    /\ pass = 1
    /\ firstOutput = <<>>
    /\ registered = FALSE
    /\ inputs = <<>>
    /\ streams = <<>>
    /\ IdleSearch
    /\ SplitLocalsWith(ScaledCheckLines)
    /\ NewTempFolder
    /\ MergeLocals
    /\ NewOutputStream
    /\ fault = "none"
    /\ error = NoError
    /\ reason = NoError
    /\ sinkFailed = FALSE
    /\ cleanupError = NoError
    /\ outputFile = PreviousContent
    /\ outputFileLog = <<>>
    /\ OneCall
    /\ heapSizes = GrowingHeapSamples

SpecMonitor == InitMonitor /\ [][NextSplit]_vars

(***************************************************************************)
(* Specification SpecConcurrent: several sortStream calls in one process,  *)
(* interleaved at their awaits.  Of each call the model follows what it    *)
(* shares with the others: the folder os.tmpdir()/large-sort, in which     *)
(* mkdtempSync makes its tempFolder, and the map                           *)
(* TEMP_SORTS_TO_CLEAN_BEFORE_EXIT.  How many run files a call writes and  *)
(* whether its split or merge throws are nondeterministic choices.         *)
(***************************************************************************)
SortIds == 1..MaxSorts
FolderNames == 1..MaxSorts

NoFolder == 0
NoFile == 0

\* fs.mkdtempSync(prefix) appends six random characters and makes a folder
\* of a unique name: the names it can return are those no folder has had
mkdtempSync_Fixed(dir) == {1}

mkdtempSync(dir) == {n \in FolderNames : dir[n].state = "never"}

\* the code between the awaits of a call has run
InFlight(c) == sorts[c].pc \in {"split", "merge", "finally"}

InitConcurrent ==
    /\ api = "sortStream"
    /\ variant \in Variants
    /\ compareKind = "asc"
    /\ inputs = <<>>
    /\ streams = <<>>
    /\ text = <<>>
    /\ inputDelimeter = NewLine
    /\ outputDelimeter = <<NL>>
    /\ linesPerFile = 1
    /\ maxStringLength = MAX_STRING_LENGTH
    /\ pc = "calls"
    /\ pass = 1
    /\ firstOutput = <<>>
    /\ registered = FALSE
    /\ IdleSearch
    /\ SplitLocals
    /\ NewTempFolder
    /\ MergeLocals
    /\ NewOutputStream
    /\ fault = "none"
    /\ error = NoError
    /\ reason = NoError
    /\ sinkFailed = FALSE
    /\ cleanupError = NoError
    /\ outputFile = PreviousContent
    /\ outputFileLog = <<>>
    /\ sorts = [c \in SortIds |-> [pc |-> "start", tempFolder |-> NoFolder,
                                   tempFiles |-> <<>>, pending |-> {}, opened |-> 0]]
    /\ registry = {}
    /\ tmpdir = [n \in FolderNames |-> [state |-> "never", files |-> <<>>]]
    /\ fileLog = {}
    /\ heapSizes = HeapSamples

oneCallVars == <<callVars, searchVars, sortVars, settleVars, destVars, splitVars, fsVars,
                 mergeVars, sinkVars>>

\* sortStream up to `await split(...)`: the temp folder is made and registered
StartSort(c) ==
    /\ sorts[c].pc = "start"
    /\ \E n \in mkdtempSync(tmpdir) :
           /\ tmpdir' = [tmpdir EXCEPT ![n].state = "exists"]
           /\ registry' = registry \cup {n}
           /\ sorts' = [sorts EXCEPT ![c].pc = "split", ![c].tempFolder = n]
           /\ fileLog' = fileLog \cup {[call |-> c, op |-> "mkdir", folder |-> n,
                                         name |-> NoFile]}

SortStart ==
    /\ \E c \in SortIds : StartSort(c)
    /\ UNCHANGED oneCallVars

\* the file `name`, written by call c, comes to be in `folder`; in a folder
\* that is gone the write fails and nothing is written
WriteRun(dir, folder, name, c) ==
    IF dir[folder].state = "exists" THEN [dir EXCEPT ![folder].files = (name :> c) @@ @]
    ELSE dir

\* split flushes a batch: flushBuffer pushes the name of the call's next run
\* file onto tempFiles and writes the file into the call's tempFolder, at
\* once (fs.writeFileSync) or by an fs.writeFile nothing waits for
FlushRun(c) ==
    LET folder == sorts[c].tempFolder
        name == FileName(Len(sorts[c].tempFiles) + 1)
    IN  /\ sorts[c].pc = "split"
        /\ Len(sorts[c].tempFiles) < MaxRuns
        /\ IF variant = "ts"
           THEN /\ sorts' = [sorts EXCEPT ![c].tempFiles = Append(@, name),
                                          ![c].pending = @ \cup {name}]
                /\ UNCHANGED <<tmpdir, fileLog>>
           ELSE /\ sorts' = [sorts EXCEPT ![c].tempFiles = Append(@, name)]
                /\ tmpdir' = WriteRun(tmpdir, folder, name, c)
                /\ fileLog' = fileLog \cup {[call |-> c, op |-> "write",
                                              folder |-> folder, name |-> name]}
        /\ UNCHANGED registry

SortFlushRun ==
    /\ \E c \in SortIds : FlushRun(c)
    /\ UNCHANGED oneCallVars

\* an fs.writeFile of the call completes, wherever the call is by then
WriteLands(c) ==
    \E name \in sorts[c].pending :
        /\ sorts' = [sorts EXCEPT ![c].pending = @ \ {name}]
        /\ tmpdir' = WriteRun(tmpdir, sorts[c].tempFolder, name, c)
        /\ fileLog' = fileLog \cup {[call |-> c, op |-> "write",
                                      folder |-> sorts[c].tempFolder, name |-> name]}
        /\ UNCHANGED registry

SortWriteLands ==
    /\ \E c \in SortIds : WriteLands(c)
    /\ UNCHANGED oneCallVars

\* `await split(...)` returns, or throws
SplitSettles(c) ==
    /\ sorts[c].pc = "split"
    /\ \E next \in {"merge", "finally"} : sorts' = [sorts EXCEPT ![c].pc = next]
    /\ UNCHANGED <<registry, tmpdir, fileLog>>

SortSplitSettles ==
    /\ \E c \in SortIds : SplitSettles(c)
    /\ UNCHANGED oneCallVars

\* merge opens the next of the call's tempFiles in the call's tempFolder
OpenRun(c) ==
    LET i == sorts[c].opened + 1
    IN  /\ sorts[c].pc = "merge"
        /\ i <= Len(sorts[c].tempFiles)
        /\ sorts' = [sorts EXCEPT ![c].opened = i]
        /\ fileLog' = fileLog \cup {[call |-> c, op |-> "read",
                                      folder |-> sorts[c].tempFolder,
                                      name |-> sorts[c].tempFiles[i]]}
        /\ UNCHANGED <<registry, tmpdir>>

SortOpenRun ==
    /\ \E c \in SortIds : OpenRun(c)
    /\ UNCHANGED oneCallVars

\* `await merge(...)` returns, or throws
MergeSettles(c) ==
    /\ sorts[c].pc = "merge"
    /\ sorts' = [sorts EXCEPT ![c].pc = "finally"]
    /\ UNCHANGED <<registry, tmpdir, fileLog>>

SortMergeSettles ==
    /\ \E c \in SortIds : MergeSettles(c)
    /\ UNCHANGED oneCallVars

\* finally { deleteFiles(tempFolder); TEMP_SORTS_TO_CLEAN_BEFORE_EXIT.delete(tempFolder) }
SortFinallyOf(c) ==
    LET folder == sorts[c].tempFolder
        thrown == rmdirSync(tmpdir[folder].state, tmpdir[folder].files)
    IN  /\ sorts[c].pc = "finally"
        /\ tmpdir' = IF thrown = NoError THEN [tmpdir EXCEPT ![folder].state = "removed"]
                      ELSE tmpdir
        /\ registry' = registry \ {folder}
        /\ sorts' = [sorts EXCEPT ![c].pc = "settled"]
        /\ fileLog' = fileLog \cup {[call |-> c, op |-> "rmdir", folder |-> folder,
                                      name |-> NoFile]}

SortFinally ==
    /\ \E c \in SortIds : SortFinallyOf(c)
    /\ UNCHANGED oneCallVars

NextConcurrent ==
    \/ SortStart
    \/ SortFlushRun
    \/ SortWriteLands
    \/ SortSplitSettles
    \/ SortOpenRun
    \/ SortMergeSettles
    \/ SortFinally

SpecConcurrent == InitConcurrent /\ [][NextConcurrent]_vars

Tokens(str, delimeter) ==
    LET pieces == StringSplit(str, delimeter)
    IN  IF NotBlank(pieces[Len(pieces)]) THEN pieces ELSE Front(pieces)

\* C8: however the text is cut into chunks, split hands inputMapFn the same
\* sequence of record strings, the one it gets from the text in a single chunk,
\* whether the delimiter is one character, a longer string or a pattern.
C8_ChunkBoundaryInvariance ==
    pc = "splitDone" => parsedLog = Tokens(text, inputDelimeter)

(***************************************************************************)
(* Vocabulary of the properties of merge.                                  *)
(***************************************************************************)
RECURSIVE Flatten(_)
Flatten(seqs) == IF seqs = <<>> THEN <<>> ELSE Head(seqs) \o Flatten(Tail(seqs))

Count(x, array) == Cardinality({i \in 1..Len(array) : array[i] = x})

\* the same records, each as many times
SameRecords(a, b) ==
    /\ Len(a) = Len(b)
    /\ \A i \in 1..Len(a) : Count(a[i], a) = Count(a[i], b)

\* every record of every input of merge, parsed
InputRecords == LET lines == Flatten(inputs) IN [i \in 1..Len(lines) |-> inputMapFn(lines[i])]

MergeSettled == api = "merge" /\ pc \in {"mergeDone", "mergeRejected"}

\* C4: merge of inputs that are each sorted by compareFn: no record is emitted
\* after a greater one, and when merge has settled the records emitted, all of
\* them written to the output in that order, are the records of all the inputs,
\* each exactly once; [1,4,7], [2,5], [3,6,8,9] gives 1 2 3 4 5 6 7 8 9 under
\* the ascending compareFn.  (The records are compared as records: which
\* characters separate them in the output is the matter of C5.)
C4_MergeOfSortedInputs ==
    api = "merge" =>
        /\ SortedAscending(emitted)
        /\ MergeSettled =>
              /\ SameRecords(emitted, InputRecords)
              /\ SelectSeq(written, IsDigit) = Flatten(Strings(emitted))
              /\ (inputs = ExampleStreams /\ compareKind = "asc") =>
                    emitted = <<1, 2, 3, 4, 5, 6, 7, 8, 9>>

C4_Witness ==
    /\ api = "merge"
    /\ pc = "mergeDone"
    /\ compareKind = "asc"
    /\ inputs = ExampleStreams
    /\ emitted = <<1, 2, 3, 4, 5, 6, 7, 8, 9>>
    /\ SelectSeq(written, IsDigit) = Flatten(Strings(emitted))

\* C5: the characters handed to the output stream, in write order, are the
\* serialized records in emission order with exactly one outputDelimeter
\* between every two consecutive records, within a batch, from one batch to the
\* next and in the final flush.
C5_OneDelimiterBetweenRecords ==
    (api = "merge" /\ pc = "mergeDone") =>
        LET joined == Join(Strings(emitted), outputDelimeter)
        IN  written \in {joined, joined \o outputDelimeter}

\* C10: at most one write to the output stream is in flight at any time.
C10_OneWriteInFlight == inFlight <= 1

C10_Witness ==
    /\ api = "merge"
    /\ inFlight = 1
    /\ Len(batches) >= 2
    /\ pc \in {"advance", "lastAdvance", "finalWrite"}

(***************************************************************************)
(* Vocabulary of the properties of sortStream.                             *)
(***************************************************************************)
NonEmpty(s) == s # <<>>

\* the non-empty delimiter-separated pieces of the input text
InputPieces == SelectSeq(StringSplit(text, inputDelimeter), NonEmpty)

EveryRecordParses == \A i \in 1..Len(InputPieces) : inputMapFn(InputPieces[i]) # Throws

ParsedInput == [i \in 1..Len(InputPieces) |-> inputMapFn(InputPieces[i])]

SortResolved == api = "sortStream" /\ pc = "resolved"

\* the records a run file holds
RunRecords(name) ==
    LET lines == ReadLines(files[name]) IN [i \in 1..Len(lines) |-> JSONparse(lines[i])]

\* C1: the records of the sort's output, in the order they are emitted, never
\* step down: compareFn(x, y) <= 0 for every adjacent pair.
C1_OutputSorted == api = "sortStream" => SortedAscending(emitted)

\* C2: an input of n parsed records sorted with linesPerFile < n, with or
\* without a last delimiter, spans more than one run and its output is the
\* sorted sequence of exactly the input's records.
C2_MultiRunSort ==
    (SortResolved /\ EveryRecordParses /\ linesPerFile < Len(ParsedInput)) =>
        /\ Len(outputFiles) > 1
        /\ SortedAscending(emitted)
        /\ SameRecords(emitted, ParsedInput)

\* C3: when every record parses, the output has as many records as the input
\* has non-empty delimiter-separated pieces.
C3_CardinalityPreserved ==
    (SortResolved /\ EveryRecordParses) => Len(emitted) = Len(InputPieces)

\* C6: "5\n3\n10\n1\n" sorted ascending with linesPerFile = 2 gives two runs
\* holding [3,5] and [1,10] and writes exactly "1\n3\n5\n10\n".
C6_Scenario ==
    (/\ SortResolved
     /\ pass = 1
     /\ text = ScenarioText
     /\ compareKind = "asc"
     /\ linesPerFile = 2
     /\ maxStringLength = MAX_STRING_LENGTH) =>
        /\ Len(outputFiles) = 2
        /\ \A i \in 1..Len(outputFiles) : outputFiles[i] \in DOMAIN files
        /\ RunRecords(outputFiles[1]) = <<3, 5>>
        /\ RunRecords(outputFiles[2]) = <<1, 10>>
        /\ written = <<"1", NL, "3", NL, "5", NL, "1", "0", NL>>

\* C7: sorting the output of a sort again, with the same arguments, writes the
\* same characters.
C7_ResortIdentical ==
    (SortResolved /\ pass = 2) => written = firstOutput

(***************************************************************************)
(* Vocabulary of the properties of a call of sortFile or sortStream that   *)
(* meets malformed records or I/O faults.                                  *)
(***************************************************************************)
WellFormed(s) == inputMapFn(s) # Throws

\* the records of the input text that parse, in input order
WellFormedRecords ==
    LET pieces == SelectSeq(Tokens(text, inputDelimeter), WellFormed)
    IN  [i \in 1..Len(pieces) |-> inputMapFn(pieces[i])]

HasMalformedRecord ==
    \E i \in 1..Len(Tokens(text, inputDelimeter)) : ~WellFormed(Tokens(text, inputDelimeter)[i])

\* the characters the call has produced: the destination file of sortFile,
\* what was written to the output stream of sortStream
Output == IF api = "sortFile" THEN outputFile ELSE written

\* the call's promise has settled
Settled == Sorting /\ pc \in {"resolved", "rejected"}

\* C11: a record whose inputMapFn throws during split is dropped and the
\* records after it are processed: the sort does not fail, and when it has
\* resolved its output holds exactly the well-formed records of the input,
\* sorted.
C11_MalformedDropped ==
    (Sorting /\ fault = "none" /\ HasMalformedRecord) =>
        /\ pc \notin {"splitRejected", "rejected"}
        /\ pc = "resolved" =>
              ReadLines(Output) = Strings(ArraySort(WellFormedRecords))

\* the input file could not be opened, or the input stream failed while read
InputFailed == error \in {OpenError, ReadError}

\* C12: once opening or reading the input has failed, the call is on its way
\* to rejecting (split has rejected and the finally block is next) or has
\* rejected with that error after the cleanup; it is never left pending and
\* the process is not stopped.
C12_InputFaultRejects ==
    (Sorting /\ InputFailed) =>
        /\ pc \in {"splitRejected", "rejected"}
        /\ pc = "rejected" => (reason = error /\ ~registered)

\* C13: once a write to the output stream has failed, merge does not return
\* normally and the sort does not resolve.
C13_SinkFaultRejects ==
    (Sorting /\ sinkFailed) => pc \notin {"mergeDone", "resolved"}

\* C14: when sortFile or sortStream has settled, resolved or rejected, the
\* temp folder of the call is gone, and so is every run file in it.
C14_WorkspaceRemoved ==
    Settled => (tempFolder = "removed" /\ DOMAIN files = {})

CleanupRan == ~registered /\ (DOMAIN files = {} => tempFolder = "removed")

\* after split or merge has thrown, the call's next step is the finally
\* block: split and merge do not run again
NoRetry ==
    pc \in {"splitRejected", "mergeRejected"} =>
        (pc' \in {pc, "rejected", "crashed"} /\
         UNCHANGED <<pos, parsedLog, opened, emitted, batches>>)

\* C16: the call rejects with the very error split or merge threw, and has run
\* the cleanup by then; after split or merge has thrown, the only step of the
\* call is that cleanup: neither split nor merge runs again.
C16_ErrorReachesCaller ==
    /\ []((Sorting /\ pc = "rejected") =>
              (error # NoError /\ reason = error /\ CleanupRan))
    /\ [][NoRetry]_vars

C16_Witness ==
    /\ Sorting
    /\ pc = "rejected"
    /\ error = RunMissing
    /\ reason = RunMissing
    /\ CleanupRan

\* C17: sortFile touches the destination path with the final rename only, and
\* only when merge has returned: until the call has resolved, and whenever it
\* fails, the destination holds what it held before the call.
C17_DestinationOnlyByRename ==
    api = "sortFile" =>
        /\ \A i \in 1..Len(outputFileLog) : outputFileLog[i] = "rename"
        /\ pc # "resolved" => (outputFileLog = <<>> /\ outputFile = PreviousContent)

\* What merge writes for a single run holding `records` (the loop of
\* mergeSortedStreams with one reader): threshold flushes as it goes, then the
\* final flush.
RECURSIVE tsMergeOutput(_, _, _, _)
tsMergeOutput(records, buf, size, out) ==
    IF records = <<>>
    THEN IF Len(buf) > 0 THEN out \o Join(buf, <<NL>>) ELSE out
    ELSE LET dataStr == mergeOutputMapFn(Head(records))
             pushed == Append(buf, dataStr)
         IN  IF size + Len(dataStr) > maxStringLength
             THEN tsMergeOutput(Tail(records), <<>>, 0,
                                out \o Join(Append(pushed, <<>>), outputDelimeter))
             ELSE tsMergeOutput(Tail(records), pushed, size + Len(dataStr), out)

\* the batch of the whole input went straight to the destination path
WrittenDirectly ==
    /\ api = "sortFile"
    /\ pc = "resolved"
    /\ outputFileLog = <<"writeFileSync">>

\* C18: when the whole input fits in one batch and that batch is written
\* straight to the destination, the destination holds the characters that
\* split followed by merge writes for the same records.
C18_DirectWriteSameOutput ==
    WrittenDirectly => outputFile = tsMergeOutput(ArraySort(parsedOk), <<>>, 0, <<>>)

\* every write has been acknowledged; sortFile's destination holds them all
AllWritesAcknowledged ==
    /\ inFlight = 0
    /\ (api = "sortFile" /\ pc = "resolved" /\ batches # <<>>) => outputFile = written

\* the final flush is issued when no earlier write is in flight
FinalFlushAfterLastWrite ==
    (pc = "finalFlush" /\ batches' # batches) => inFlight = 0

\* C19: merge returns, and the sort resolves, only when every write to the
\* output stream has been acknowledged, the final flush included (sortFile's
\* destination then holds all of them); and the final flush is issued only
\* when no earlier write is in flight.
C19_ResolvesAfterLastWrite ==
    /\ [](pc \in {"mergeDone", "resolved"} => AllWritesAcknowledged)
    /\ [][FinalFlushAfterLastWrite]_vars

C19_Witness ==
    /\ api = "sortFile"
    /\ pc = "resolved"
    /\ Len(batches) >= 2
    /\ inFlight = 0
    /\ outputFile = written

\* the lines of input i that merge has taken from its iterator
Consumed(i) == SubSeq(inputs[i], 1, Len(inputs[i]) - Len(streams[i]))

\* no reader has moved beyond a line that does not parse, and merge has
\* returned normally only if it has read every input to its end
NoLineSkipped ==
    /\ \A i \in 1..opened : \A j \in 1..Len(Consumed(i)) : WellFormed(Consumed(i)[j])
    /\ \A i \in 1..Len(emitted) : emitted[i] # Throws
    /\ error = ParseError => pc = "mergeRejected"
    /\ pc = "mergeDone" => \A i \in 1..Len(streams) : streams[i] = <<>>

\* once inputMapFn has thrown nothing is read, emitted or written
AbortedAtThrow == error = ParseError => UNCHANGED <<emitted, batches, streams>>

\* C20: when inputMapFn throws on a line of an input of merge, at the first
\* line of the input or at a later one, merge rejects with that error: the
\* line is never passed over (no reader moves beyond a line that does not
\* parse, and merge does not return normally having left lines unread), and
\* from then on no record is emitted and nothing more is written.
C20_MergeParseErrorAborts ==
    /\ [](api = "merge" => NoLineSkipped)
    /\ [][AbortedAtThrow]_vars

C20_Witness ==
    /\ api = "merge"
    /\ pc = "mergeRejected"
    /\ error = ParseError
    /\ emitted # <<>>
    /\ \E i \in 1..Len(streams) : streams[i] # <<>> /\ ~WellFormed(Head(streams[i]))

(***************************************************************************)
(* Vocabulary of the properties of the runs split writes.                  *)
(***************************************************************************)
\* the data of every run written so far: the run files as they are, and the
\* fs.writeFile calls still on their way
RunsWritten ==
    {files[n] : n \in DOMAIN files \ {tempFile}}
    \cup {pendingWrites[i].data : i \in 1..Len(pendingWrites)}

\* C21: every run split writes holds at most linesPerFile records, the run
\* written at the end of the input after the trailing fragment was appended
\* included; between two chunks the batch holds fewer than linesPerFile.
C21_RunAtMostLinesPerFile ==
    /\ \A run \in RunsWritten : Len(ReadLines(run)) <= linesPerFile
    /\ pc = "split" => Len(buffer) < linesPerFile

C21_Witness ==
    /\ pc = "splitDone"
    /\ linesPerFile > 1
    /\ NotBlank(previousRemaingData)
    /\ Len(buffer) = linesPerFile
    /\ \E run \in RunsWritten : Len(ReadLines(run)) = linesPerFile

\* deleteFiles could not remove the temp folder
CleanupFailed == cleanupError # NoError

\* C22: when the removal of the temp folder fails, because the folder is not
\* empty or is already gone, the failure is swallowed: a call whose split and
\* merge returned resolves, and a call whose split or merge threw rejects with
\* that error, never with the error of the cleanup.
C22_CleanupFailureSwallowed ==
    (Settled /\ CleanupFailed) =>
        /\ reason # cleanupError
        /\ error = NoError => (pc = "resolved" /\ reason = NoError)
        /\ error # NoError => (pc = "rejected" /\ reason = error)

C22_Witness ==
    /\ Sorting
    /\ pc = "rejected"
    /\ cleanupError = FolderNotEmpty
    /\ error = ReadError
    /\ reason = ReadError

\* the same when the folder was already gone, for a call that succeeded
C22_WitnessGone ==
    /\ Sorting
    /\ pc = "resolved"
    /\ cleanupError = FolderGone
    /\ reason = NoError

\* C23: within one split every flush writes to a run file name no earlier
\* flush used: the list of run files holds no name twice (and so no run is
\* overwritten once written), also when the input ends with an unterminated
\* record right after a flush at the line-count threshold.
C23_RunNamesUnique ==
    \A i, j \in 1..Len(outputFiles) : i # j => outputFiles[i] # outputFiles[j]

\* the merge loop has begun: readers.sort has run
MergeLoopBegun ==
    pc \in {"loop", "flush", "advance", "reposition", "last", "lastFlush", "lastAdvance",
            "finalFlush", "finalWrite", "mergeDone"}

\* C24: from the initial sort on, the readers are sorted descending by their
\* current record in every state of the merge: after every removal of the tail
\* and after every advance, the moment included where a reader holds its next
\* record and has not yet been put in its place.
C24_CursorSetSorted ==
    MergeLoopBegun => SortedDescending(readers)

\* C25: for an array sorted descending and a target T, binarySearch returns
\* the index i such that every entry before i compares >= T and every entry
\* from i onward compares < T, entries equal to T included (they stay before
\* i); this gives 0 for an empty array and array.length when T belongs at the
\* very end.
C25_BinarySearchIndex ==
    bsResult # NotCalled =>
        /\ bsResult \in 0..Len(bsArray)
        /\ \A j \in 1..Len(bsArray) :
              IF j <= bsResult
              THEN compareFn(bsArray[j].data, bsTarget.data) >= 0
              ELSE compareFn(bsArray[j].data, bsTarget.data) < 0

\* the same with the entries equal to T left out of account
C25_ExceptTies ==
    (bsResult # NotCalled /\ bsArray # <<>>) =>
        /\ bsResult \in 0..Len(bsArray)
        /\ \A j \in 1..Len(bsArray) :
              IF j <= bsResult
              THEN compareFn(bsArray[j].data, bsTarget.data) >= 0
              ELSE compareFn(bsArray[j].data, bsTarget.data) <= 0

\* the run file `name` is there and no write to it is still on its way
CompletelyWritten(name) ==
    /\ name \in DOMAIN files
    /\ \A i \in 1..Len(pendingWrites) : pendingWrites[i].name # name

\* C26: when split has finished, every run file of the list it returns has
\* been completely written, and the merge never opens a run that is missing.
C26_RunsWrittenWhenSplitReturns ==
    /\ pc = "splitDone" => \A i \in 1..Len(outputFiles) : CompletelyWritten(outputFiles[i])
    /\ error # RunMissing

(***************************************************************************)
(* Vocabulary of the properties of the readers of merge.                   *)
(***************************************************************************)
\* input i of merge yields no record when it is opened
EmptyInput(i) == inputs[i] = <<>>

\* input i has no reader in the merge
TakesNoPart(i) ==
    /\ \A r \in 1..Len(readers) : readers[r].stream # i
    /\ mergerInfo.stream # i

\* C27: an input that yields no record when opened is closed in that very
\* round and takes no part in the merge; the merge of inputs that are all
\* empty does not fail and emits nothing.
C27_EmptyInputExcluded ==
    api = "merge" =>
        /\ \A i \in 1..opened :
              EmptyInput(i) => (handles[i].reader = 1 /\ TakesNoPart(i))
        /\ (\A i \in 1..Len(inputs) : EmptyInput(i)) =>
              (pc # "mergeRejected" /\ emitted = <<>> /\ batches = <<>>)

\* the records of every input of merge, input by input
InputRuns ==
    [i \in 1..Len(inputs) |-> [j \in 1..Len(inputs[i]) |-> inputMapFn(inputs[i][j])]]

\* The stable k-way merge of runs: the smallest head record first, and of
\* heads that compare equal the one of the earliest run.
RECURSIVE StableMerge(_)
StableMerge(runs) ==
    LET live == {i \in 1..Len(runs) : runs[i] # <<>>}
    IN  IF live = {} THEN <<>>
        ELSE LET first == CHOOSE i \in live : \A j \in live :
                              \/ compareFn(Head(runs[i]), Head(runs[j])) < 0
                              \/ compareFn(Head(runs[i]), Head(runs[j])) = 0 /\ i <= j
             IN  <<Head(runs[first])>> \o StableMerge([runs EXCEPT ![first] = Tail(@)])

\* C28: records that compare equal are emitted in stable order: a record of
\* an earlier run before an equal record of a later run, and the records of one
\* run in their run order; the output is the stable k-way merge of the inputs.
C28_StableMerge ==
    (api = "merge" /\ pc = "mergeDone") => emitted = StableMerge(InputRuns)

(***************************************************************************)
(* Vocabulary of the properties of the merge of files.                     *)
(***************************************************************************)
\* every line that is not blank parses, and every file begins with a record
OnlyBlankLinesAmidRecords ==
    \A i \in 1..Len(inputs) :
        /\ inputs[i] # <<>> => NotBlank(inputs[i][1])
        /\ \A j \in 1..Len(inputs[i]) : NotBlank(inputs[i][j]) => WellFormed(inputs[i][j])

\* the records of the lines that are not blank, of every file
RecordsOfLines ==
    LET lines == SelectSeq(Flatten(inputs), NotBlank)
    IN  [i \in 1..Len(lines) |-> inputMapFn(lines[i])]

\* C29: when a reader advances, the empty and whitespace-only lines of its
\* run are skipped: none is handed to the parse callback (which would throw on
\* it and fail the merge) and none yields an output record; the merge emits
\* the records of the other lines.
C29_BlankLinesSkipped ==
    (api = "mergeSortedFiles" /\ OnlyBlankLinesAmidRecords) =>
        /\ error # ParseError
        /\ \A i \in 1..Len(emitted) : emitted[i] # Throws
        /\ pc = "mergeDone" => SameRecords(emitted, RecordsOfLines)

\* the merge has returned or thrown
MergeLeft == pc \in {"mergeDone", "mergeRejected", "resolved", "rejected"}

\* C30: the merge of files closes every file stream it opened exactly once
\* by the time it settles, whether it completes or aborts with an error, and
\* closes none twice.
C30_StreamsClosedOnce ==
    FileBased =>
        \A i \in 1..Len(handles) :
            /\ handles[i].stream <= 1
            /\ (MergeLeft /\ handles[i].created) => handles[i].stream = 1

(***************************************************************************)
(* Several calls in one process.                                           *)
(***************************************************************************)
\* the operations on the run file `name` of `folder`
OpsOn(folder, name) == {e \in fileLog : e.folder = folder /\ e.name = name /\ e.name # NoFile}

\* C31: two sort calls interleaved at their awaits each use their own temp
\* folder and their own registry key: calls in flight have different temp
\* folders, every run file is written and read by one call only, a call
\* removes no folder but its own, and the entry of a call in flight stays in
\* the registry whatever the other calls complete.
C31_CallsIsolated ==
    pc = "calls" =>
        /\ \A c, d \in SortIds :
               (c # d /\ InFlight(c) /\ InFlight(d)) => sorts[c].tempFolder # sorts[d].tempFolder
        /\ \A e, f \in fileLog :
               (e.folder = f.folder /\ e.name = f.name /\ e.name # NoFile) => e.call = f.call
        /\ \A e \in fileLog : e.folder = sorts[e.call].tempFolder
        /\ \A c \in SortIds : InFlight(c) => sorts[c].tempFolder \in registry
        /\ \A c \in SortIds :
               sorts[c].pc \in {"split", "merge"} =>
                   tmpdir[sorts[c].tempFolder].state = "exists"

\* one call has completed and removed its registry entry while another, which
\* has written and opened a run file, is still in flight
C31_Witness ==
    /\ pc = "calls"
    /\ \E c, d \in SortIds :
           /\ sorts[c].pc = "settled"
           /\ sorts[c].tempFiles # <<>>
           /\ sorts[d].pc = "merge"
           /\ sorts[d].opened > 0
           /\ sorts[d].tempFolder \in registry

(***************************************************************************)
(* The end of the input.                                                   *)
(***************************************************************************)
\* the records of the batch that have reached a run file or the destination
RecordsWritten(st) == Flatten([i \in 1..Len(st.writes) |-> ReadLines(st.writes[i].data)])

\* flush() takes the retained fragment for one record exactly when it is not
\* blank: it is then the one string handed to inputMapFn and its record, when
\* it parses, is the last of the batch written; a blank fragment is handed to
\* nobody and adds no record
FlushTakesFragment ==
    LET fragment == previousRemaingData
        record == inputMapFn(fragment)
    IN  /\ NotBlank(fragment) => parsedLog' = Append(parsedLog, fragment)
        /\ (NotBlank(fragment) /\ record # Throws) =>
               /\ parsedOk' = Append(parsedOk, record)
               /\ SameRecords(buffer', Append(buffer, record))
               /\ SameRecords([i \in 1..Len(buffer') |-> JSONstringify(buffer'[i])],
                              RecordsWritten(flush(SplitState)))
        /\ ~NotBlank(fragment) =>
               /\ parsedLog' = parsedLog
               /\ parsedOk' = parsedOk
               /\ buffer' = ArraySort(buffer)

\* transform() of an empty chunk hands nothing to inputMapFn, adds no record
\* and writes nothing
EmptyChunkEmitsNothing ==
    \A heapUsed \in heapSizes :
        LET st == transform(<<>>, SplitState, heapUsed)
        IN  /\ st.parsedLog = parsedLog
            /\ st.buffer = buffer
            /\ st.previousRemaingData = previousRemaingData
            /\ st.writes = <<>>

EndsWithDelimiter ==
    \E d \in Range(inputDelimeter) :
        Len(text) >= Len(d) /\ SubSeq(text, Len(text) - Len(d) + 1, Len(text)) = d

\* an input ending with the delimiter: no string is handed to inputMapFn
\* after the record before that delimiter
NoExtraRecord ==
    (pc = "splitDone" /\ inputDelimeter = NewLine /\ EndsWithDelimiter) =>
        parsedLog = Front(StringSplit(text, inputDelimeter))

SplitFlushTakesFragment == SplitFlush => FlushTakesFragment

\* C32: at the end of the input the retained fragment becomes one last record
\* if and only if it is not empty after trimming; an input that ends with the
\* delimiter gets no extra empty record, and an empty chunk yields no record.
C32_TrailingFragment ==
    /\ [][SplitFlushTakesFragment]_vars
    /\ [](pc = "split" => EmptyChunkEmitsNothing)
    /\ []NoExtraRecord

\* split has ended on a fragment that was a record
C32_Witness ==
    /\ pc = "splitDone"
    /\ NotBlank(previousRemaingData)
    /\ parsedLog # <<>>
    /\ parsedLog[Len(parsedLog)] = previousRemaingData
    /\ parsedOk # <<>>

\* split has ended on a whitespace-only fragment, which was dropped
C32_WitnessBlank ==
    /\ pc = "splitDone"
    /\ previousRemaingData = <<" ">>
    /\ parsedLog # <<>>
    /\ parsedLog[Len(parsedLog)] # previousRemaingData

(***************************************************************************)
(* The memory monitor.                                                     *)
(***************************************************************************)
\* the chunks the input stream can deliver next and the heap sizes the
\* monitor can find
NextChunks == {SubSeq(text, pos + 1, pos + n) : n \in 1..(Len(text) - pos)}

\* the calls of shouldFlushMemory that transform() makes on the next chunk
NextChecks ==
    IF pc # "split" THEN {}
    ELSE UNION {Range(transform(chunk, SplitState, heapUsed).checks) :
                    chunk \in NextChunks, heapUsed \in heapSizes}

\* C33: the monitor signals a flush only at a batch size equal to the
\* current checkpoint and with the heap sampled there above the ceiling; at
\* any other batch size it returns false and takes no sample (the checkpoint
\* stays); the first checkpoint is min(1000, linesPerFile), the 1000 scaled
\* down to ScaledCheckLines.
C33_FlushOnlyAtCheckpoint ==
    /\ \A check \in NextChecks :
           /\ check.flush => (check.size = check.checkpoint /\ check.heapUsed > MAX_BYTES)
           /\ check.size # check.checkpoint =>
                  /\ ~check.flush
                  /\ ~check.sampled
                  /\ check.nextMemoryCheck = check.checkpoint
    /\ (pc = "split" /\ pos = 0) =>
           nextMemoryCheck = Min(ScaledCheckLines, linesPerFile)

\* the checkpoint `next` lies ahead of a batch of `size` records (Infinity,
\* which the monitor sets when the heap has not grown, counted as ahead)
Ahead(next, size) == next = NoCheckpoint \/ next > size

\* C34: a checkpoint that does not flush sets the next checkpoint to a batch
\* size strictly greater than the current one, so that a growing batch meets
\* a later checkpoint and a heap above the ceiling is noticed before the
\* line-count threshold.
C34_NextCheckpointAhead ==
    \A check \in NextChecks :
        (check.sampled /\ ~check.flush) => Ahead(check.nextMemoryCheck, check.size)

(***************************************************************************)
(* Termination of the merge.                                               *)
(***************************************************************************)
\* the main loop, and lib's loop over the last reader, are running
InMergeLoop ==
    pc \in {"loop", "flush", "advance", "reposition", "last", "lastFlush", "lastAdvance"}

\* the lines read from the inputs so far
LinesConsumed == Len(Flatten(inputs)) - Len(Flatten(streams))

\* the records read and not yet emitted: one per reader of the array, less
\* the reader lib leaves in the array while it advances it
RecordsHeld ==
    IF variant = "lib" /\ pc \in {"advance", "lastAdvance"} THEN Len(readers) - 1
    ELSE Len(readers)

\* the loop is over: nothing is left to read and every record was emitted
LoopEndedOnEmptySet ==
    pc \in {"finalFlush", "finalWrite", "mergeDone"} =>
        /\ \A i \in 1..Len(streams) : streams[i] = <<>>
        /\ Len(emitted) = Len(Flatten(inputs))

\* a pass through the loop emits one record, never more
OneRecordAtATime == Len(emitted') \in {Len(emitted), Len(emitted) + 1}

\* C35: the merge of finite inputs terminates: each pass through the main
\* loop emits exactly one record and takes it from its input (the records
\* emitted and the records the readers hold are the lines read), the loop
\* ends only when no reader has a record left, and the promise then settles.
C35_MergeTerminates ==
    /\ [](api = "merge" /\ InMergeLoop => LinesConsumed = Len(emitted) + RecordsHeld)
    /\ [][OneRecordAtATime]_vars
    /\ [](api = "merge" => LoopEndedOnEmptySet)
    /\ <>MergeSettled

\* the merge of two inputs that both hold records has settled
C35_Witness ==
    /\ api = "merge"
    /\ pc = "mergeDone"
    /\ Len(inputs) > 1
    /\ \A i \in 1..Len(inputs) : inputs[i] # <<>>
    /\ Len(emitted) = Len(Flatten(inputs))

(***************************************************************************)
(* A record that does not parse.                                           *)
(***************************************************************************)
\* the next chunks that complete one record, one inputMapFn throws on
FailedRecordChunks ==
    {chunk \in NextChunks :
        LET pieces == StringSplit(chunk, inputDelimeter)
        IN  Len(pieces) = 2 /\ inputMapFn(previousRemaingData \o pieces[1]) = Throws}

\* C36: a record whose parse fails during split changes nothing: the batch,
\* the count of records loaded and the run files are after it what they were
\* before it, and it starts no flush.
C36_FailedParseChangesNothing ==
    pc = "split" =>
        \A chunk \in FailedRecordChunks, heapUsed \in heapSizes :
            LET st == transform(chunk, SplitState, heapUsed)
            IN  /\ st.buffer = buffer
                /\ st.linesLoaded = linesLoaded
                /\ st.outputFiles = outputFiles
                /\ st.writes = <<>>

(***************************************************************************)
(* The merge loop of the TypeScript revisions as a function of the runs:   *)
(* while(readers.length > 0) the last reader is taken from the array, its  *)
(* record is emitted, the reader takes its next record and is spliced in   *)
(* at the index binarySearch returns, or is dropped at the end of its run. *)
(***************************************************************************)
RECURSIVE ReferenceLoop(_, _)
ReferenceLoop(rds, runs) ==
    IF rds = <<>> THEN <<>>
    ELSE LET info == rds[Len(rds)]
             rest == TakeLast(rds)
             s == info.stream
         IN  IF runs[s] = <<>> THEN <<info.data>> \o ReferenceLoop(rest, runs)
             ELSE LET next == [data |-> Head(runs[s]), stream |-> s]
                      insertIdx == tsBinarySearch(next, rest)
                  IN  IF insertIdx = Throws THEN <<info.data>>
                      ELSE <<info.data>>
                           \o ReferenceLoop(Splice(rest, insertIdx, next),
                                            [runs EXCEPT ![s] = Tail(@)])

\* the readers of the runs that hold a record, in the order of the runs
FirstReaders(runs) ==
    LET live == SelectSeq([i \in 1..Len(runs) |-> [run |-> runs[i], stream |-> i]],
                          LAMBDA r : r.run # <<>>)
    IN  [k \in 1..Len(live) |-> [data |-> Head(live[k].run), stream |-> live[k].stream]]

ReferenceMerge(runs) ==
    ReferenceLoop(ReadersSort(FirstReaders(runs)),
                  [i \in 1..Len(runs) |-> IF runs[i] = <<>> THEN <<>> ELSE Tail(runs[i])])

\* no two records of the inputs compare equal
PairwiseDistinct ==
    \A i, k \in 1..Len(inputs) : \A j \in 1..Len(inputs[i]), l \in 1..Len(inputs[k]) :
        <<i, j>> # <<k, l>> => compareFn(InputRuns[i][j], InputRuns[k][l]) # 0

IsPrefix(s, t) == Len(s) <= Len(t) /\ s = SubSeq(t, 1, Len(s))

\* C37: for sorted inputs whose records compare pairwise distinct, the merge
\* of lib/large-sort.js (the reader staying at the tail without a search, the
\* last reader drained without comparisons) emits the record sequence of the
\* reference loop: a prefix of it at every moment, all of it when it returns.
C37_OptimizedMergeRefines ==
    (api = "merge" /\ variant = "lib" /\ PairwiseDistinct) =>
        /\ IsPrefix(emitted, ReferenceMerge(InputRuns))
        /\ MergeSettled => emitted = ReferenceMerge(InputRuns)

\* both shortcuts taken: the first run, of two records, is emitted whole
\* before the second, which is then drained
C37_Witness ==
    /\ api = "merge" /\ variant = "lib" /\ pc = "mergeDone"
    /\ PairwiseDistinct
    /\ Len(inputs) = 2 /\ Len(inputs[1]) = 2 /\ inputs[2] # <<>>
    /\ emitted = InputRuns[1] \o InputRuns[2]

(***************************************************************************)
(* Vocabulary of the properties of the default comparator.                 *)
(***************************************************************************)
NonDecreasing(array) == \A i \in 1..(Len(array) - 1) : array[i] <= array[i + 1]

HasEqualRecords(array) == \E i, j \in 1..Len(array) : i # j /\ array[i] = array[j]

\* merge with the default comparator, of inputs that hold equal records
DefaultMergeEmitsAll ==
    (api = "merge" /\ HasEqualRecords(InputRecords)) =>
        /\ NonDecreasing(emitted)
        /\ MergeSettled => (pc = "mergeDone" /\ SameRecords(emitted, InputRecords))

\* sortStream with the default comparator, of a text that holds equal records
DefaultSortEmitsAll ==
    (api = "sortStream" /\ pass = 1 /\ EveryRecordParses /\ HasEqualRecords(ParsedInput)) =>
        /\ NonDecreasing(emitted)
        /\ pc = "resolved" => SameRecords(emitted, ParsedInput)

\* C38: with the default comparator (a, b) => a > b ? 1 : -1, which never
\* returns 0, sorting or merging inputs that hold equal records still emits
\* every record, in non-decreasing order.
C38_DefaultComparator ==
    compareKind = "default" => (DefaultMergeEmitsAll /\ DefaultSortEmitsAll)

(***************************************************************************)
(* Vocabulary of the properties of the sort of an empty input.             *)
(***************************************************************************)
\* the input text holds no record: no piece between delimiters but empty ones
HoldsNoRecord == InputPieces = <<>>

\* C39: sorting an input that holds no record settles successfully, writes
\* no run, and leaves an empty output at the destination: nothing is written
\* to the output stream, and the destination file of sortFile exists and is
\* empty afterwards.
C39_EmptyInputSorts ==
    (Sorting /\ fault = "none" /\ HoldsNoRecord) =>
        /\ pc \notin {"rejected", "crashed"}
        /\ outputFiles = <<>> /\ pendingWrites = <<>>
        /\ pc = "resolved" =>
              /\ written = <<>>
              /\ api = "sortFile" => (outputFile = <<>> /\ outputFileLog # <<>>)

=============================================================================
